---- MODULE Spec2Model ----
(***************************************************************************)
(* Model of the coordination plane of DistributedChatApp1:                 *)
(*   - reliable messaging of FaultToleranceManager   (FaultTolerance.py)   *)
(*   - PartitionDetector and the partition loop      (FaultTolerance.py)   *)
(*   - the crash detector and leader monitor         (FaultTolerance.py)   *)
(*   - the bully election of class LeaderElection    (LeaderElection.py)   *)
(* Time is counted in whole seconds.  A value read from time.time() is     *)
(* kept as the age `now - value`, saturated one above the largest constant *)
(* it is compared with; a thread asleep in time.sleep(d) holds a timer     *)
(* that counts d down, and time does not pass over a timer that is due.    *)
(***************************************************************************)
EXTENDS Integers, Sequences, FiniteSets, TLC

(***************************************************************************)
(* Bounds of the model.                                                    *)
(***************************************************************************)
MaxSend == 2        \* send_reliable_message calls per node
MaxHandled == 2     \* RELIABLE_MSG envelopes handed to handle_message, in all
MaxHeartbeats == 2  \* HEARTBEAT datagrams handed to handle_message, in all
MaxRounds == 2      \* probe rounds run after the startup grace period
MaxThreads == 2     \* _start_election threads alive at one server at a time
MaxCrashes == 1     \* servers that crash
MaxCallers == 2     \* threads that call send_reliable_message of one manager
MaxJoins == 2       \* trigger_joining_discovery calls on one discovery manager

(***************************************************************************)
(* Program constants.                                                      *)
(***************************************************************************)
message_timeout == 5        \* FaultToleranceManager.message_timeout
max_retries == 3            \* ReliableMessage.max_retries
timeout_loop_sleep == 2     \* time.sleep(2) of _message_timeout_loop
failure_timeout == 15       \* FaultToleranceManager.failure_timeout
failure_loop_sleep == 5     \* time.sleep(5) of _failure_detection_loop
leader_timeout == 10        \* FaultToleranceManager.leader_timeout
startup_grace_period == 30  \* PartitionDetector.startup_grace_period
probe_interval == 10        \* PartitionDetector.probe_interval
probe_timeout == 5          \* sock.settimeout(5) of _probe_node
heartbeat_interval == 5     \* FaultToleranceManager.heartbeat_interval
leader_monitor_sleep == 5   \* time.sleep(self.leader_timeout / 2)
election_sleep == 2         \* time.sleep(2.0) of _send_election_messages
election_timeout == 5       \* LeaderElection.election_timeout
le_heartbeat_interval == 3  \* LeaderElection.heartbeat_interval
heartbeat_timeout == 10     \* LeaderElection.heartbeat_timeout

\* Python's None / an Optional value: <<>> is None, <<v>> is v.
None == <<>>
Some(v) == <<v>>

Min(a, b) == IF a < b THEN a ELSE b

\* a dict without one key
DictDel(d, k) == [x \in DOMAIN d \ {k} |-> d[x]]

\* a dict with one key set
DictPut(d, k, v) == [x \in DOMAIN d \cup {k} |-> IF x = k THEN v ELSE d[x]]

(***************************************************************************)
(* The fault tolerance managers on the datagram bus: node 1 is the manager *)
(* that is started, sends and is watched; the others are its peers.        *)
(***************************************************************************)
Nodes == {1, 2}
Peers == {2, 3}

\* payloads, each named by its str(): a string, and a tuple
Payloads == {"hello", "(1, 2)"}

\* msg_id: uuid4, unique; named here by its sender and the sender's count
MsgIds == Nodes \X (1..(MaxSend + 1))

VARIABLES
    running,            \* [node -> BOOLEAN]  FaultToleranceManager.running
    fault_stats,        \* [node -> [crash, omission, byzantine, partition]]
    ft_last             \* what the last handle_message call did

VARIABLES
    pending_messages,   \* [node -> [msg_id -> ReliableMessage]]
    received_messages,  \* [node -> set of msg_id]
    sequence_counter,   \* [node -> Nat]
    bus,                \* datagrams sent to MULTICAST_GROUP_ADDRESS so far
    timeout_loop,       \* [node -> state of the _message_timeout_loop thread]
    upcalls,            \* [node -> [msg_id -> times returned to the caller]]
    handled             \* RELIABLE_MSG envelopes handled so far

VARIABLES
    node_last_seen,     \* [node -> sequence of [id, age], a dict in insertion order]
    failed_nodes,       \* [node -> set of ids]
    leader_last_seen,   \* [node -> None or Some(age)]
    failure_loop,       \* [node -> state of the _failure_detection_loop thread]
    leader_monitor,     \* [node -> state of the _leader_monitoring_loop thread]
    heartbeat_loop,     \* [node -> state of the _heartbeat_loop thread]
    on_crash,           \* [node -> [id -> calls of the CRASH callback since id's
                        \*           last heartbeat: in its silence, and outside it]]
    heartbeats          \* HEARTBEAT datagrams handled so far

VARIABLES
    known_nodes,        \* [node -> set of ids]   PartitionDetector.known_nodes
    reachable_nodes,    \* [node -> set of ids]
    in_partition,       \* [node -> BOOLEAN]
    partition_detection_enabled,    \* [node -> BOOLEAN]
    partition_start_time,           \* [node -> None or Some(age)]
    startup_time,       \* [node -> age of PartitionDetector.startup_time]
    partition_loop,     \* [node -> state of the _partition_detection_loop thread]
    pd_last,            \* [node -> what the last probe_nodes call saw and returned]
    on_partition,       \* [node -> calls of the PARTITION callback]
    rounds              \* probe rounds run after the grace period

commonVars == <<running, fault_stats, ft_last>>

rmVars == <<pending_messages, received_messages, sequence_counter, bus,
            timeout_loop, upcalls, handled>>

fdVars == <<node_last_seen, failed_nodes, leader_last_seen, failure_loop,
            leader_monitor, heartbeat_loop, on_crash, heartbeats>>

pdVars == <<known_nodes, reachable_nodes, in_partition, partition_detection_enabled,
            partition_start_time, startup_time, partition_loop, pd_last,
            on_partition, rounds>>

ftVars == <<commonVars, rmVars, fdVars, pdVars>>

VARIABLES
    state,                  \* [server -> "follower" | "candidate" | "leader"]
    current_leader,         \* [server -> None or Some(id)]
    election_in_progress,   \* [server -> BOOLEAN]
    group_view,             \* [server -> set of ids]  group_view.members
    last_heartbeat_time,    \* [server -> age of last_heartbeat_time]
    le_running,             \* [server -> BOOLEAN]  LeaderElection.running
    crashed,                \* [server -> BOOLEAN]  the process was killed
    election_threads,       \* [server -> [slot -> state of a _start_election thread]]
    heartbeat_thread,       \* [server -> state of the _heartbeat_monitor thread]
    receiver_socket,        \* [server -> datagrams queued on receiver_socket]
    followers_at_crash,     \* the FOLLOWERs that named a LEADER when it crashed
    answers                 \* [server -> the servers whose ANSWER has reached
                            \*  self.socket since the server last sent ELECTION]

leVars == <<state, current_leader, election_in_progress, group_view,
            last_heartbeat_time, le_running, crashed, election_threads,
            heartbeat_thread, receiver_socket, followers_at_crash, answers>>

VARIABLES
    participants,       \* [node -> dict id -> Participant]  GroupView.participants
    gv_lock,            \* [node -> "free" or the thread that holds GroupView.lock]
    event_callbacks,    \* [node -> sequence of listeners]  GroupView.event_callbacks
    gv_call,            \* [node -> [thread -> the GroupView call the thread is in]]
    group_view_servers, \* [node -> set of server ids]  resources.utils
    server_last_seen,   \* [node -> dict server id -> age]  resources.utils
    main_thread,        \* [node -> state of the main thread of Server.py]
    receiver_thread,    \* [node -> state of the multicast_receiver thread]
    cleanup_thread,     \* [node -> state of the GroupView._cleanup_loop thread]
    cleanup_loop,       \* [node -> state of the cleanup_loop thread of Server.py]
    srv_log,            \* [node -> what the server process has done so far]
    discovered_servers, \* [node -> set of str ids]  DiscoveryManager.discovered_servers
    discovery_thread    \* [node -> state of the DiscoveryManager._discovery_loop thread]

dmVars == <<discovered_servers, discovery_thread>>

srvVars == <<participants, gv_lock, event_callbacks, gv_call, group_view_servers,
             server_last_seen, main_thread, receiver_thread, cleanup_thread,
             cleanup_loop, srv_log, dmVars>>

VARIABLES
    members,            \* a GroupView of LeaderElection.py: the keys of its members
    view_last           \* the last call on that GroupView and what it returned

VARIABLES
    snapshot            \* [node -> the list(pending_messages.items()) that the
                        \*          timeout loop is iterating over, what is left]

VARIABLES
    send_threads,       \* [node -> [caller -> its place in send_reliable_message]]
    stamps              \* [node -> the values _get_next_sequence has returned, in
                        \*          the order it returned them]

raceVars == <<snapshot, send_threads, stamps>>

VARIABLES
    receiver_locals     \* [node -> the local names of multicast_receiver: the
                        \*          server_ip it last assigned, and whether its
                        \*          last datagram made it call trigger_election]

VARIABLES
    discovery_loop      \* [node -> the DiscoveryManager of the server process: its
                        \*          phase and flags, the place of its _discovery_loop
                        \*          thread, and what the thread has fired so far]

phaseVars == <<discovery_loop>>

auxVars == <<members, view_last, raceVars, receiver_locals, phaseVars>>

vars == <<ftVars, leVars, srvVars, auxVars>>

(***************************************************************************)
(* ReliableMessage                                                         *)
(***************************************************************************)
\* hashlib.sha256(f"{sender_id}{msg_type}{str(payload)}{timestamp}")[:16]:
\* a digest, equal exactly when the four hashed fields are equal.
CalculateChecksum(msg) ==
    <<msg.sender_id, msg.msg_type, msg.payload, msg.timestamp>>

\* a verify_integrity that accepts every checksum
AcceptsAnyChecksum(msg) == TRUE

\* verify_integrity
VerifyIntegrity(msg) == msg.checksum = CalculateChecksum(msg)

\* ReliableMessage(sender_id, msg_type, payload): the timestamp is the
\* constructor's reading of the clock (reading 0 of this message), the
\* checksum is computed over it.
NewReliableMessage(sender, msg_type, payload, id) ==
    LET m0 == [sender_id |-> sender, msg_type |-> msg_type, payload |-> payload,
               timestamp |-> [of |-> id, reading |-> 0]]
    IN  [sender_id |-> sender, msg_type |-> msg_type, payload |-> payload,
         timestamp |-> m0.timestamp, sequence_num |-> 0,
         checksum |-> CalculateChecksum(m0), retry_count |-> 0, age |-> 0]

\* to_dict
ToDict(id, msg) ==
    [msg_id |-> id, sender_id |-> msg.sender_id, msg_type |-> msg.msg_type,
     payload |-> msg.payload, timestamp |-> msg.timestamp,
     sequence_num |-> msg.sequence_num, checksum |-> msg.checksum]

\* json.loads(json.dumps(payload)), on the payload's str(): a tuple comes
\* back as a list, a string as itself.
JsonRoundTrip(payload) == IF payload = "(1, 2)" THEN "[1, 2]" ELSE payload

\* what json.dumps of the envelope puts on the wire, as json.loads reads it
Wire(d) == [d EXCEPT !.payload = JsonRoundTrip(d.payload)]

\* from_dict: the fields as received
FromDict(d) ==
    [sender_id |-> d.sender_id, msg_type |-> d.msg_type, payload |-> d.payload,
     timestamp |-> d.timestamp, sequence_num |-> d.sequence_num,
     checksum |-> d.checksum, retry_count |-> 0, age |-> 0]

\* _transmit_message: the RELIABLE_MSG envelope multicast for msg
Envelope(id, msg) ==
    [type |-> "RELIABLE_MSG", message |-> Wire(ToDict(id, msg))]

\* _send_ack
AckDatagram(n, id) == [type |-> "ACK", msg_id |-> id, sender_id |-> n]


(***************************************************************************)
(* FaultToleranceManager and its PartitionDetector, as constructed          *)
(***************************************************************************)
\* the module global imported by `from resources.utils import ... current_leader`:
\* the binding made at import time; no statement of the program assigns it
ft_current_leader == None

NoCall == [node |-> 0, dgram |-> [type |-> "none"], dup |-> FALSE,
           result |-> None, acks |-> 0, byzantine |-> 0, omission |-> 0]

NoProbe == [called |-> FALSE, grace |-> FALSE, known |-> 0, reachable |-> 0,
            returned |-> TRUE, healed |-> FALSE, elections |-> 0]

Stopped == [pc |-> "off", timer |-> 0]

InitFT ==
    /\ running = [n \in Nodes |-> FALSE]
    /\ fault_stats = [n \in Nodes |->
                        [crash |-> 0, omission |-> 0, byzantine |-> 0, partition |-> 0]]
    /\ ft_last = NoCall
    /\ pending_messages = [n \in Nodes |-> <<>>]
    /\ received_messages = [n \in Nodes |-> {}]
    /\ sequence_counter = [n \in Nodes |-> 0]
    /\ bus = {}
    /\ timeout_loop = [n \in Nodes |-> [pc |-> "off", timer |-> 0, timed_out |-> <<>>]]
    /\ upcalls = [n \in Nodes |-> [id \in MsgIds |-> 0]]
    /\ handled = 0
    /\ node_last_seen = [n \in Nodes |-> <<>>]
    /\ failed_nodes = [n \in Nodes |-> {}]
    /\ leader_last_seen = [n \in Nodes |-> None]
    /\ failure_loop = [n \in Nodes |-> [pc |-> "off", timer |-> 0, items |-> <<>>]]
    /\ leader_monitor = [n \in Nodes |-> Stopped]
    /\ heartbeat_loop = [n \in Nodes |-> Stopped]
    /\ on_crash = [n \in Nodes |-> [id \in Nodes \cup Peers |-> [silent |-> 0, early |-> 0]]]
    /\ heartbeats = 0
    /\ known_nodes = [n \in Nodes |-> {}]
    /\ reachable_nodes = [n \in Nodes |-> {}]
    /\ in_partition = [n \in Nodes |-> FALSE]
    /\ partition_detection_enabled = [n \in Nodes |-> FALSE]
    /\ partition_start_time = [n \in Nodes |-> None]
    /\ startup_time = [n \in Nodes |-> 0]
    /\ partition_loop = [n \in Nodes |-> Stopped]
    /\ pd_last = [n \in Nodes |-> NoProbe]
    /\ on_partition = [n \in Nodes |-> 0]
    /\ rounds = 0

\* the msg_ids of a set, in the order they were inserted in the pending dict
\* (the order they were sent in)
RECURSIVE InsertionOrder(_)
InsertionOrder(S) ==
    IF S = {} THEN <<>>
    ELSE LET x == CHOOSE y \in S : \A z \in S : y[2] <= z[2]
         IN  <<x>> \o InsertionOrder(S \ {x})

\* start(): the threads begin their loops
FTStart(n) ==
    /\ ~running[n]
    /\ running' = [running EXCEPT ![n] = TRUE]
    /\ heartbeat_loop' = [heartbeat_loop EXCEPT ![n] = [pc |-> "sleep", timer |-> 0]]
    /\ failure_loop' = [failure_loop EXCEPT ![n] =
                          [pc |-> "sleep", timer |-> 0, items |-> <<>>]]
    /\ timeout_loop' = [timeout_loop EXCEPT ![n] =
                          [pc |-> "sleep", timer |-> 0, timed_out |-> <<>>]]
    /\ partition_loop' = [partition_loop EXCEPT ![n] = [pc |-> "sleep", timer |-> 0]]
    /\ leader_monitor' = [leader_monitor EXCEPT ![n] = [pc |-> "sleep", timer |-> 0]]
    /\ UNCHANGED <<fault_stats, ft_last>>
    /\ UNCHANGED <<pending_messages, received_messages, sequence_counter, bus,
                   upcalls, handled>>
    /\ UNCHANGED <<node_last_seen, failed_nodes, leader_last_seen, on_crash, heartbeats>>
    /\ UNCHANGED <<known_nodes, reachable_nodes, in_partition,
                   partition_detection_enabled, partition_start_time, startup_time,
                   pd_last, on_partition, rounds>>
    /\ UNCHANGED <<leVars, srvVars, auxVars>>

(***************************************************************************)
(* Reliable messaging                                                      *)
(***************************************************************************)
\* send_reliable_message(msg_type, payload)
SendReliableMessage(n, msg_type, payload) ==
    /\ sequence_counter[n] < MaxSend
    /\ LET seq == sequence_counter[n] + 1          \* _get_next_sequence
           id == <<n, seq>>
           message == [NewReliableMessage(n, msg_type, payload, id)
                         EXCEPT !.sequence_num = seq]
       IN  /\ sequence_counter' = [sequence_counter EXCEPT ![n] = seq]
           /\ pending_messages' = [pending_messages EXCEPT ![n] = DictPut(@, id, message)]
           /\ bus' = bus \cup {Envelope(id, message)}
    /\ UNCHANGED <<received_messages, timeout_loop, upcalls, handled>>
    /\ UNCHANGED <<commonVars, fdVars, pdVars>>
    /\ UNCHANGED <<leVars, srvVars, auxVars>>

\* _handle_acknowledgment
HandleAcknowledgment(n, d) ==
    /\ pending_messages' =
         IF d.msg_id \in DOMAIN pending_messages[n]
         THEN [pending_messages EXCEPT ![n] = DictDel(@, d.msg_id)]
         ELSE pending_messages
    /\ ft_last' = [NoCall EXCEPT !.node = n, !.dgram = d]
    /\ UNCHANGED <<received_messages, sequence_counter, bus, timeout_loop, upcalls,
                   handled>>
    /\ UNCHANGED <<running, fault_stats, fdVars, pdVars>>
    /\ UNCHANGED <<leVars, srvVars, auxVars>>

\* the dict _handle_reliable_message returns for a message it delivers
Delivery(id) == [type |-> "reliable_message", message |-> id]

\* a duplicate check that finds no msg_id in the delivered set
NeverDuplicate(n, id) == FALSE

\* `if message.msg_id in self.received_messages`
IsDuplicate(n, id) == id \in received_messages[n]

\* the keys from_dict reads with data[...]
MessageFields == {"msg_id", "sender_id", "msg_type", "payload", "timestamp",
                  "sequence_num", "checksum"}

\* from_dict finds every key it reads
HasFields(message_data) == MessageFields \subseteq DOMAIN message_data

\* _handle_reliable_message on a message part from_dict raises KeyError on:
\* its own `except Exception`
ReliableMessageError(n, d) ==
    /\ handled < MaxHandled
    /\ handled' = handled + 1
    /\ fault_stats' = [fault_stats EXCEPT ![n].omission = @ + 1]
    /\ ft_last' = [NoCall EXCEPT !.node = n, !.dgram = d, !.omission = 1]
    /\ UNCHANGED <<received_messages, bus, upcalls>>
    /\ UNCHANGED <<pending_messages, sequence_counter, timeout_loop>>
    /\ UNCHANGED <<running, fdVars, pdVars>>
    /\ UNCHANGED <<leVars, srvVars, auxVars>>

\* handle_message on a datagram json.loads raises JSONDecodeError on
HandleCorrupted(n, d) ==
    /\ handled < MaxHandled
    /\ handled' = handled + 1
    /\ fault_stats' = [fault_stats EXCEPT ![n].byzantine = @ + 1]
    /\ ft_last' = [NoCall EXCEPT !.node = n, !.dgram = d, !.byzantine = 1]
    /\ UNCHANGED <<received_messages, bus, upcalls>>
    /\ UNCHANGED <<pending_messages, sequence_counter, timeout_loop>>
    /\ UNCHANGED <<running, fdVars, pdVars>>
    /\ UNCHANGED <<leVars, srvVars, auxVars>>

\* _handle_reliable_message on a message part that has every field
ReliableMessageRead(n, d) ==
    LET message == FromDict(d.message)
        id == d.message.msg_id
        call == [NoCall EXCEPT !.node = n, !.dgram = d,
                               !.dup = (id \in received_messages[n])]
    IN  /\ handled < MaxHandled
        /\ handled' = handled + 1
        /\ IF IsDuplicate(n, id)
           THEN \* duplicate: send ACK anyway
                /\ bus' = bus \cup {AckDatagram(n, id)}
                /\ ft_last' = [call EXCEPT !.acks = 1]
                /\ UNCHANGED <<received_messages, fault_stats, upcalls>>
           ELSE IF ~VerifyIntegrity(message)
           THEN /\ fault_stats' = [fault_stats EXCEPT ![n].byzantine = @ + 1]
                /\ ft_last' = [call EXCEPT !.byzantine = 1]
                /\ UNCHANGED <<received_messages, bus, upcalls>>
           ELSE /\ received_messages' = [received_messages EXCEPT ![n] = @ \cup {id}]
                /\ bus' = bus \cup {AckDatagram(n, id)}
                /\ upcalls' = [upcalls EXCEPT ![n][id] = @ + 1]
                /\ ft_last' = [call EXCEPT !.acks = 1, !.result = Some(Delivery(id))]
                /\ UNCHANGED fault_stats
        /\ UNCHANGED <<pending_messages, sequence_counter, timeout_loop>>
        /\ UNCHANGED <<running, fdVars, pdVars>>
        /\ UNCHANGED <<leVars, srvVars, auxVars>>

\* _handle_reliable_message
HandleReliableMessage(n, d) ==
    IF HasFields(d.message) THEN ReliableMessageRead(n, d)
    ELSE ReliableMessageError(n, d)

\* an envelope as the bus delivers it with its checksum field altered
Altered(d) == [d EXCEPT !.message.checksum = <<"altered">>]

\* what a node may read off the bus: a datagram that was sent, as sent or,
\* for an envelope, with its checksum altered in transit
Deliverable == bus \cup {Altered(d) : d \in {e \in bus : e.type = "RELIABLE_MSG"}}

\* a test that finds every pending message timed out
TimedOutAtOnce(message) == TRUE

\* `current_time - message.timestamp > self.message_timeout`
TimedOut(message) == message.age > message_timeout

\* `message.retry_count < message.max_retries`
CanRetry(message) == message.retry_count < max_retries

\* _message_timeout_loop, one pass of its for loop over list(pending.items())
TimeoutScan(n) ==
    /\ running[n]
    /\ timeout_loop[n].pc = "sleep"
    /\ timeout_loop[n].timer = 0
    /\ LET pend == pending_messages[n]
           due == {id \in DOMAIN pend : TimedOut(pend[id])}
           retry == {id \in due : CanRetry(pend[id])}
           failed == due \ retry
           retried(id) == [pend[id] EXCEPT !.retry_count = @ + 1,
                                           !.timestamp.reading = @ + 1,
                                           !.age = 0]
           pend2 == [id \in DOMAIN pend |-> IF id \in retry THEN retried(id) ELSE pend[id]]
       IN  /\ pending_messages' = [pending_messages EXCEPT ![n] = pend2]
           /\ bus' = bus \cup {Envelope(id, pend2[id]) : id \in retry}
           /\ fault_stats' = [fault_stats EXCEPT ![n].omission = @ + Cardinality(failed)]
           /\ timeout_loop' = [timeout_loop EXCEPT ![n] =
                IF failed = {}
                THEN [pc |-> "sleep", timer |-> timeout_loop_sleep, timed_out |-> <<>>]
                ELSE [pc |-> "remove", timer |-> 0, timed_out |-> InsertionOrder(failed)]]
    /\ UNCHANGED <<received_messages, sequence_counter, upcalls, handled>>
    /\ UNCHANGED <<running, ft_last, fdVars, pdVars>>
    /\ UNCHANGED <<leVars, srvVars, auxVars>>

\* _message_timeout_loop, one `del self.pending_messages[msg_id]` of its second
\* loop; a msg_id that is gone raises KeyError, which nothing catches: the
\* thread ends
TimeoutRemove(n) ==
    /\ timeout_loop[n].pc = "remove"
    /\ LET id == Head(timeout_loop[n].timed_out)
           rest == Tail(timeout_loop[n].timed_out)
       IN  IF id \in DOMAIN pending_messages[n]
           THEN /\ pending_messages' = [pending_messages EXCEPT ![n] = DictDel(@, id)]
                /\ timeout_loop' = [timeout_loop EXCEPT ![n] =
                     IF rest = <<>>
                     THEN [pc |-> "sleep", timer |-> timeout_loop_sleep, timed_out |-> <<>>]
                     ELSE [pc |-> "remove", timer |-> 0, timed_out |-> rest]]
           ELSE /\ timeout_loop' = [timeout_loop EXCEPT ![n] =
                     [pc |-> "dead", timer |-> 0, timed_out |-> <<>>]]
                /\ UNCHANGED pending_messages
    /\ UNCHANGED <<received_messages, sequence_counter, bus, upcalls, handled>>
    /\ UNCHANGED <<commonVars, fdVars, pdVars>>
    /\ UNCHANGED <<leVars, srvVars, auxVars>>

(***************************************************************************)
(* Failure detection                                                       *)
(***************************************************************************)
\* the keys of node_last_seen
SeenIds(seen) == {seen[i].id : i \in DOMAIN seen}

\* node_last_seen[id] = time.time()
SeenNow(seen, id) ==
    IF id \in SeenIds(seen)
    THEN [i \in DOMAIN seen |-> IF seen[i].id = id THEN [seen[i] EXCEPT !.age = 0]
                                                  ELSE seen[i]]
    ELSE Append(seen, [id |-> id, age |-> 0])

\* time.time() - node_last_seen[id], for a key of the dict
SilenceOf(seen, id) == (CHOOSE e \in {seen[i] : i \in DOMAIN seen} : e.id = id).age

\* the HEARTBEAT datagram of _heartbeat_loop
HeartbeatDatagram(n) == [type |-> "HEARTBEAT", sender_id |-> n, node_type |-> "server"]

\* a LEADER_HEARTBEAT datagram as _heartbeat_loop builds it
LeaderHeartbeatDatagram(n) == [type |-> "LEADER_HEARTBEAT", sender_id |-> n]

\* the PARTITION_PROBE datagram of _probe_node
ProbeDatagram(n, target) ==
    [type |-> "PARTITION_PROBE", sender_id |-> n, target_id |-> target]

\* _handle_heartbeat
HeartbeatHandled(n, d) ==
    /\ heartbeats < MaxHeartbeats
    /\ heartbeats' = heartbeats + 1
    /\ node_last_seen' = [node_last_seen EXCEPT ![n] = SeenNow(@, d.sender_id)]
    /\ known_nodes' = [known_nodes EXCEPT ![n] = @ \cup {d.sender_id}]
    /\ failed_nodes' = [failed_nodes EXCEPT ![n] = @ \ {d.sender_id}]
    /\ on_crash' = [on_crash EXCEPT ![n][d.sender_id] = [silent |-> 0, early |-> 0]]
    /\ ft_last' = [NoCall EXCEPT !.node = n, !.dgram = d,
                     !.result = Some([type |-> "heartbeat_ack", sender_id |-> n])]
    /\ UNCHANGED <<leader_last_seen, failure_loop, leader_monitor, heartbeat_loop>>
    /\ UNCHANGED <<reachable_nodes, in_partition, partition_detection_enabled,
                   partition_start_time, startup_time, partition_loop, pd_last,
                   on_partition, rounds>>
    /\ UNCHANGED <<running, fault_stats, rmVars>>

\* _handle_heartbeat, in a manager outside a server process
HandleHeartbeat(n, d) == HeartbeatHandled(n, d) /\ UNCHANGED <<leVars, srvVars, auxVars>>

\* _handle_leader_heartbeat
HandleLeaderHeartbeat(n, d) ==
    /\ leader_last_seen' =
         IF Some(d.sender_id) = ft_current_leader
         THEN [leader_last_seen EXCEPT ![n] = Some(0)]
         ELSE leader_last_seen
    /\ ft_last' = [NoCall EXCEPT !.node = n, !.dgram = d]
    /\ UNCHANGED <<node_last_seen, failed_nodes, failure_loop, leader_monitor,
                   heartbeat_loop, on_crash, heartbeats>>
    /\ UNCHANGED <<running, fault_stats, rmVars, pdVars>>
    /\ UNCHANGED <<leVars, srvVars, auxVars>>

\* _handle_partition_probe
ProbeHandled(n, d) ==
    /\ ft_last' = [NoCall EXCEPT !.node = n, !.dgram = d,
                     !.result = IF d.target_id = n
                                THEN Some(ProbeDatagram(n, d.sender_id))
                                ELSE None]
    /\ UNCHANGED <<running, fault_stats, rmVars, fdVars, pdVars>>

\* _handle_partition_probe, in a manager outside a server process
HandlePartitionProbe(n, d) == ProbeHandled(n, d) /\ UNCHANGED <<leVars, srvVars, auxVars>>

\* handle_message(raw_message, sender_addr), on a datagram read off the bus
HandleMessage(n, d) ==
    CASE d.type = "HEARTBEAT" -> HandleHeartbeat(n, d)
      [] d.type = "ACK" -> HandleAcknowledgment(n, d)
      [] d.type = "RELIABLE_MSG" -> HandleReliableMessage(n, d)
      [] d.type = "LEADER_HEARTBEAT" -> HandleLeaderHeartbeat(n, d)
      [] d.type = "PARTITION_PROBE" -> HandlePartitionProbe(n, d)
      [] d.type = "not json" -> HandleCorrupted(n, d)

\* _heartbeat_loop, one pass
HeartbeatLoop(n) ==
    /\ running[n]
    /\ heartbeat_loop[n].pc = "sleep"
    /\ heartbeat_loop[n].timer = 0
    /\ bus' = bus \cup {HeartbeatDatagram(n)}
               \cup (IF ft_current_leader = Some(n)
                     THEN {LeaderHeartbeatDatagram(n)} ELSE {})
    /\ heartbeat_loop' = [heartbeat_loop EXCEPT ![n].timer = heartbeat_interval]
    /\ UNCHANGED <<pending_messages, received_messages, sequence_counter,
                   timeout_loop, upcalls, handled>>
    /\ UNCHANGED <<node_last_seen, failed_nodes, leader_last_seen, failure_loop,
                   leader_monitor, on_crash, heartbeats>>
    /\ UNCHANGED <<commonVars, pdVars>>
    /\ UNCHANGED <<leVars, srvVars, auxVars>>

\* `current_time - last_seen > self.failure_timeout`
Expired(age) == age > failure_timeout

\* recovery_callbacks[FaultType.CRASH](id): the call is logged as made in id's
\* silence (more than failure_timeout since its last heartbeat) or outside it
CrashCallback(n, id) ==
    IF id \in SeenIds(node_last_seen[n]) /\ Expired(SilenceOf(node_last_seen[n], id))
    THEN [on_crash EXCEPT ![n][id].silent = @ + 1]
    ELSE [on_crash EXCEPT ![n][id].early = @ + 1]

\* _failure_detection_loop: current_time = time.time() and
\* list(self.node_last_seen.items()), the snapshot the for loop walks
FailureScanBegin(n) ==
    /\ running[n]
    /\ failure_loop[n].pc = "sleep"
    /\ failure_loop[n].timer = 0
    /\ LET seen == node_last_seen[n]
           items == [i \in DOMAIN seen |->
                       [id |-> seen[i].id, expired |-> Expired(seen[i].age)]]
       IN  failure_loop' = [failure_loop EXCEPT ![n] =
              IF items = <<>>
              THEN [pc |-> "sleep", timer |-> failure_loop_sleep, items |-> <<>>]
              ELSE [pc |-> "scan", timer |-> 0, items |-> items]]
    /\ UNCHANGED <<node_last_seen, failed_nodes, leader_last_seen, leader_monitor,
                   heartbeat_loop, on_crash, heartbeats>>
    /\ UNCHANGED <<commonVars, rmVars, pdVars>>
    /\ UNCHANGED <<leVars, srvVars, auxVars>>

\* _failure_detection_loop: the body of the for loop, for the next item of the
\* snapshot
ScanStep(n) ==
    /\ failure_loop[n].pc = "scan"
    /\ LET item == Head(failure_loop[n].items)
           rest == Tail(failure_loop[n].items)
       IN  /\ IF item.expired /\ item.id \notin failed_nodes[n]
              THEN /\ failed_nodes' = [failed_nodes EXCEPT ![n] = @ \cup {item.id}]
                   /\ fault_stats' = [fault_stats EXCEPT ![n].crash = @ + 1]
                   /\ on_crash' = CrashCallback(n, item.id)
              ELSE UNCHANGED <<failed_nodes, fault_stats, on_crash>>
           /\ failure_loop' = [failure_loop EXCEPT ![n] =
                IF rest = <<>>
                THEN [pc |-> "sleep", timer |-> failure_loop_sleep, items |-> <<>>]
                ELSE [pc |-> "scan", timer |-> 0, items |-> rest]]
    /\ UNCHANGED <<node_last_seen, leader_last_seen, leader_monitor, heartbeat_loop,
                   heartbeats>>
    /\ UNCHANGED <<running, ft_last, rmVars, pdVars>>

\* the loop body, in a manager that has no CRASH callback of a server process
FailureScanStep(n) == ScanStep(n) /\ UNCHANGED <<leVars, srvVars, auxVars>>

\* _leader_monitoring_loop, one pass
LeaderMonitor(n) ==
    /\ running[n]
    /\ leader_monitor[n].pc = "sleep"
    /\ leader_monitor[n].timer = 0
    /\ on_crash' =
         IF /\ ft_current_leader # None
            /\ leader_last_seen[n] # None
            /\ leader_last_seen[n][1] > leader_timeout
         THEN CrashCallback(n, ft_current_leader[1])
         ELSE on_crash
    /\ leader_monitor' = [leader_monitor EXCEPT ![n].timer = leader_monitor_sleep]
    /\ UNCHANGED <<node_last_seen, failed_nodes, leader_last_seen, failure_loop,
                   heartbeat_loop, heartbeats>>
    /\ UNCHANGED <<commonVars, rmVars, pdVars>>
    /\ UNCHANGED <<leVars, srvVars, auxVars>>

\* a sleeping thread's timer after one second
Slept(thread) == IF thread.pc = "sleep" THEN [thread EXCEPT !.timer = @ - 1] ELSE thread

\* a sleeping thread is not due
NotDue(thread) == thread.pc = "sleep" => thread.timer > 0

(***************************************************************************)
(* Partition detection                                                     *)
(***************************************************************************)
\* add_known_node
AddKnownNode(n, id) ==
    /\ known_nodes' = [known_nodes EXCEPT ![n] = @ \cup {id}]
    /\ UNCHANGED <<reachable_nodes, in_partition, partition_detection_enabled,
                   partition_start_time, startup_time, partition_loop, pd_last,
                   on_partition, rounds>>
    /\ UNCHANGED <<commonVars, rmVars, fdVars>>
    /\ UNCHANGED <<leVars, srvVars, auxVars>>

\* what sock.recvfrom of _probe_node may end with, probing id: the timeout, a
\* PARTITION_PROBE for this node, a PARTITION_PROBE for another
ProbeResponses(n, id) ==
    {None, Some(ProbeDatagram(id, n)), Some(ProbeDatagram(id, id))}

\* _probe_node, on what recvfrom ended with
ProbeNode(n, response) ==
    /\ response # None
    /\ response[1].type = "PARTITION_PROBE"
    /\ response[1].target_id = n

\* a grace check that is over from the start
GraceOver(n) == FALSE

\* `current_time - self.startup_time < self.startup_grace_period`
InGracePeriod(n) == startup_time[n] < startup_grace_period

\* `reachable_nodes < total_nodes * 0.5`
BelowThreshold(reachable, total) == 2 * reachable < total

\* probe_nodes, given what each probe's recvfrom ends with: the detector's
\* fields after the call and the value returned
ProbeNodes(n, responses) ==
    LET total_nodes == Cardinality(known_nodes[n])
        reached == {id \in known_nodes[n] : ProbeNode(n, responses[id])}
        was_in_partition == in_partition[n]
        now_in_partition == BelowThreshold(Cardinality(reached), total_nodes)
    IN  IF ~partition_detection_enabled[n] /\ InGracePeriod(n)
        THEN [enabled |-> FALSE, reachable |-> {}, in_partition |-> FALSE,
              start_time |-> partition_start_time[n], grace |-> TRUE,
              returned |-> TRUE]
        ELSE IF total_nodes = 0
        THEN [enabled |-> TRUE, reachable |-> {}, in_partition |-> FALSE,
              start_time |-> partition_start_time[n], grace |-> FALSE,
              returned |-> TRUE]
        ELSE [enabled |-> TRUE, reachable |-> reached,
              in_partition |-> now_in_partition,
              start_time |->
                 IF total_nodes > 1 /\ now_in_partition /\ ~was_in_partition
                 THEN Some(startup_time[n])
                 ELSE IF total_nodes > 1 /\ ~now_in_partition /\ was_in_partition
                 THEN None
                 ELSE partition_start_time[n],
              grace |-> FALSE,
              returned |-> ~now_in_partition]

\* on_partition_recovery(partition_detector) of Server.py, the PARTITION
\* callback of a server process, on the detector as probe_nodes left it: the
\* number of trigger_election() calls it makes
OnPartitionRecovery(r, total_known_nodes) ==
    IF total_known_nodes > 1 /\ r.enabled /\ ~r.in_partition THEN 1 ELSE 0

\* _partition_detection_loop, one pass: probe_nodes, the PARTITION count and
\* callback, and the sleep; a probe that is not answered holds the pass for
\* the socket timeout
PartitionLoop(n, responses) ==
    /\ running[n]
    /\ partition_loop[n].pc = "sleep"
    /\ partition_loop[n].timer = 0
    /\ LET r == ProbeNodes(n, responses)
           unanswered == IF r.grace THEN 0
                         ELSE Cardinality({id \in known_nodes[n] : responses[id] = None})
       IN  /\ ~r.grace => rounds < MaxRounds
           /\ rounds' = IF r.grace THEN rounds ELSE rounds + 1
           /\ partition_detection_enabled' =
                 [partition_detection_enabled EXCEPT ![n] = r.enabled]
           /\ reachable_nodes' = [reachable_nodes EXCEPT ![n] = r.reachable]
           /\ in_partition' = [in_partition EXCEPT ![n] = r.in_partition]
           /\ partition_start_time' = [partition_start_time EXCEPT ![n] = r.start_time]
           /\ pd_last' = [pd_last EXCEPT ![n] =
                 [called |-> TRUE, grace |-> r.grace,
                  known |-> Cardinality(known_nodes[n]),
                  reachable |-> Cardinality(r.reachable), returned |-> r.returned,
                  healed |-> in_partition[n] /\ ~r.in_partition,
                  elections |-> IF ~r.returned /\ r.in_partition
                                THEN OnPartitionRecovery(r, Cardinality(known_nodes[n]))
                                ELSE 0]]
           /\ IF ~r.returned /\ r.in_partition
              THEN /\ fault_stats' = [fault_stats EXCEPT ![n].partition = @ + 1]
                   /\ on_partition' = [on_partition EXCEPT ![n] = @ + 1]
              ELSE UNCHANGED <<fault_stats, on_partition>>
           /\ partition_loop' = [partition_loop EXCEPT ![n].timer =
                 probe_interval + probe_timeout * unanswered]
    /\ UNCHANGED <<known_nodes, startup_time>>
    /\ UNCHANGED <<running, ft_last, rmVars, fdVars>>
    /\ UNCHANGED <<leVars, srvVars, auxVars>>

(***************************************************************************)
(* Time: one second passes.  A clock reading is kept as its age, up to one *)
(* more than the largest value it is compared with; a sleeping thread      *)
(* wakes when its timer is at 0, and time does not pass over a due thread  *)
(* or over a thread inside a pass.                                         *)
(***************************************************************************)
TickRM ==
    /\ \A n \in Nodes : timeout_loop[n].pc # "remove" /\ NotDue(timeout_loop[n])
    /\ pending_messages' = [n \in Nodes |->
          [id \in DOMAIN pending_messages[n] |->
             [pending_messages[n][id] EXCEPT !.age = Min(@ + 1, message_timeout + 1)]]]
    /\ timeout_loop' = [n \in Nodes |-> Slept(timeout_loop[n])]
    /\ UNCHANGED <<received_messages, sequence_counter, bus, upcalls, handled>>
    /\ UNCHANGED <<commonVars, fdVars, pdVars>>
    /\ UNCHANGED <<leVars, srvVars, auxVars>>

FDSecond ==
    /\ \A n \in Nodes : /\ failure_loop[n].pc # "scan"
                        /\ NotDue(failure_loop[n])
                        /\ NotDue(leader_monitor[n])
                        /\ NotDue(heartbeat_loop[n])
    /\ node_last_seen' = [n \in Nodes |->
          [i \in DOMAIN node_last_seen[n] |->
             [node_last_seen[n][i] EXCEPT !.age = Min(@ + 1, failure_timeout + 1)]]]
    /\ leader_last_seen' = [n \in Nodes |->
          IF leader_last_seen[n] = None THEN None
          ELSE Some(Min(leader_last_seen[n][1] + 1, leader_timeout + 1))]
    /\ failure_loop' = [n \in Nodes |-> Slept(failure_loop[n])]
    /\ leader_monitor' = [n \in Nodes |-> Slept(leader_monitor[n])]
    /\ heartbeat_loop' = [n \in Nodes |-> Slept(heartbeat_loop[n])]
    /\ UNCHANGED <<failed_nodes, on_crash, heartbeats>>
    /\ UNCHANGED <<commonVars, rmVars>>

\* a second passes for the failure detector
TickFD == FDSecond /\ UNCHANGED <<pdVars, leVars, srvVars, auxVars>>

PDSecond ==
    /\ \A n \in Nodes : NotDue(partition_loop[n])
    /\ startup_time' = [n \in Nodes |-> Min(startup_time[n] + 1, startup_grace_period + 1)]
    /\ partition_loop' = [n \in Nodes |-> Slept(partition_loop[n])]
    /\ UNCHANGED <<known_nodes, reachable_nodes, in_partition,
                   partition_detection_enabled, partition_start_time, pd_last,
                   on_partition, rounds>>

\* a second passes for the partition detector
TickPD == PDSecond /\ UNCHANGED <<commonVars, rmVars, fdVars, leVars, srvVars, auxVars>>

(***************************************************************************)
(* LeaderElection: each server an instance, on a host of its own; a        *)
(* NodeIdentifier is named by its process_id, which orders the servers.    *)
(***************************************************************************)
Servers == {1, 2, 3}

\* the two-server group: servers 1 and 2 are constructed, server 3 never is
Pair == {1, 2}

\* the value _send_election_messages returns: `responses = 0`, never added to
Responses == 0

NoThread == [pc |-> "none", timer |-> 0]

InitLE ==
    /\ state = [n \in Servers |-> "follower"]
    /\ current_leader = [n \in Servers |-> None]
    /\ election_in_progress = [n \in Servers |-> FALSE]
    /\ group_view = [n \in Servers |-> {}]
    /\ last_heartbeat_time = [n \in Servers |-> 0]
    /\ le_running = [n \in Servers |-> FALSE]
    /\ crashed = [n \in Servers |-> FALSE]
    /\ election_threads = [n \in Servers |-> [t \in 1..MaxThreads |-> NoThread]]
    /\ heartbeat_thread = [n \in Servers |-> Stopped]
    /\ receiver_socket = [n \in Servers |-> <<>>]
    /\ followers_at_crash = {}
    /\ answers = [n \in Servers |-> {}]

\* the election datagrams
ElectionMessage(n) == [type |-> "election", sender |-> n]

CoordinatorMessage(n) == [type |-> "coordinator", leader |-> n]

HeartbeatMessage(n) == [type |-> "heartbeat", leader |-> n]

\* self.socket.sendto(..., self.multicast_group), `copies` times: the datagrams
\* queue on the receiver socket of every other server that is running; the
\* sender's own copies are skipped by _election_monitor (sender_addr[0] is its
\* own ip)
Multicast(n, message, copies) ==
    [m \in Servers |->
        IF m # n /\ le_running[m]
        THEN receiver_socket[m] \o [i \in 1..copies |-> message]
        ELSE receiver_socket[m]]

\* get_higher_nodes
GetHigherNodes(n) == {m \in group_view[n] : m > n}

\* the thread slots of a server that are free
FreeSlots(n) == {t \in 1..MaxThreads : election_threads[n][t].pc = "none"}

\* trigger_election can run: it returns at once, or there is a slot for the
\* thread it starts
CanTrigger(n) == election_in_progress[n] \/ FreeSlots(n) # {}

\* trigger_election: the server's election threads after the call
TriggerElection(n) ==
    IF election_in_progress[n]
    THEN election_threads[n]
    ELSE LET t == CHOOSE x \in FreeSlots(n) : \A y \in FreeSlots(n) : x <= y
         IN  [election_threads[n] EXCEPT ![t] = [pc |-> "check", timer |-> 0]]

\* start()
LEStart(n) ==
    /\ ~le_running[n]
    /\ ~crashed[n]
    /\ le_running' = [le_running EXCEPT ![n] = TRUE]
    /\ group_view' = [group_view EXCEPT ![n] = @ \cup {n}]
    /\ heartbeat_thread' = [heartbeat_thread EXCEPT ![n] = [pc |-> "sleep", timer |-> 0]]
    /\ election_threads' = [election_threads EXCEPT ![n] = TriggerElection(n)]
    /\ UNCHANGED <<state, current_leader, election_in_progress, last_heartbeat_time,
                   crashed, receiver_socket>>
    /\ UNCHANGED <<ftVars, srvVars, auxVars, followers_at_crash, answers>>

\* handle_new_server_join
HandleNewServerJoin(n, id) ==
    /\ ~crashed[n]
    /\ CanTrigger(n)
    /\ group_view' = [group_view EXCEPT ![n] = @ \cup {id}]
    /\ election_threads' =
         IF /\ id \notin group_view[n]
            /\ current_leader[n] # None
            /\ id > current_leader[n][1]
         THEN [election_threads EXCEPT ![n] = TriggerElection(n)]
         ELSE election_threads
    /\ UNCHANGED <<state, current_leader, election_in_progress, last_heartbeat_time,
                   le_running, crashed, heartbeat_thread, receiver_socket>>
    /\ UNCHANGED <<ftVars, srvVars, auxVars, followers_at_crash, answers>>

\* _start_election: `if self.election_in_progress: return`
ElectionCheck(n, t) ==
    /\ election_threads[n][t].pc = "check"
    /\ election_threads' = [election_threads EXCEPT ![n][t] =
          IF election_in_progress[n] THEN NoThread ELSE [pc |-> "set", timer |-> 0]]
    /\ UNCHANGED <<state, current_leader, election_in_progress, group_view,
                   last_heartbeat_time, le_running, crashed, heartbeat_thread,
                   receiver_socket>>
    /\ UNCHANGED <<ftVars, srvVars, auxVars, followers_at_crash, answers>>

\* _start_election: the flag, CANDIDATE, and either the way to _become_leader
\* or _send_election_messages up to its sleep
ElectionBegin(n, t) ==
    /\ election_threads[n][t].pc = "set"
    /\ election_in_progress' = [election_in_progress EXCEPT ![n] = TRUE]
    /\ state' = [state EXCEPT ![n] = "candidate"]
    /\ IF GetHigherNodes(n) = {}
       THEN /\ election_threads' = [election_threads EXCEPT ![n][t] =
                                      [pc |-> "become", timer |-> 0]]
            /\ UNCHANGED receiver_socket
       ELSE /\ receiver_socket' =
                 Multicast(n, ElectionMessage(n), Cardinality(GetHigherNodes(n)))
            /\ election_threads' = [election_threads EXCEPT ![n][t] =
                                      [pc |-> "sleep", timer |-> election_sleep]]
    /\ answers' = IF GetHigherNodes(n) = {} THEN answers
                  ELSE [answers EXCEPT ![n] = {}]
    /\ UNCHANGED <<current_leader, group_view, last_heartbeat_time, le_running,
                   crashed, heartbeat_thread>>
    /\ UNCHANGED <<ftVars, srvVars, auxVars, followers_at_crash>>

\* _start_election: _send_election_messages returns; `if not responses`
\* (_wait_for_coordinator is the other branch)
ElectionWake(n, t) ==
    /\ election_threads[n][t].pc = "sleep"
    /\ election_threads[n][t].timer = 0
    /\ election_threads' = [election_threads EXCEPT ![n][t] =
          IF Responses = 0 THEN [pc |-> "become", timer |-> 0]
                        ELSE [pc |-> "wait", timer |-> election_timeout]]
    /\ UNCHANGED <<state, current_leader, election_in_progress, group_view,
                   last_heartbeat_time, le_running, crashed, heartbeat_thread,
                   receiver_socket>>
    /\ UNCHANGED <<ftVars, srvVars, auxVars, followers_at_crash, answers>>

\* _become_leader: self.state = NodeState.LEADER
BecomeLeader(n, t) ==
    /\ election_threads[n][t].pc = "become"
    /\ state' = [state EXCEPT ![n] = "leader"]
    /\ election_threads' = [election_threads EXCEPT ![n][t].pc = "announce"]
    /\ UNCHANGED <<current_leader, election_in_progress, group_view,
                   last_heartbeat_time, le_running, crashed, heartbeat_thread,
                   receiver_socket>>
    /\ UNCHANGED <<ftVars, srvVars, auxVars, followers_at_crash, answers>>

\* _become_leader: self.current_leader = self.node_id and the COORDINATOR
AnnounceLeader(n, t) ==
    /\ election_threads[n][t].pc = "announce"
    /\ current_leader' = [current_leader EXCEPT ![n] = Some(n)]
    /\ receiver_socket' = Multicast(n, CoordinatorMessage(n), 1)
    /\ election_threads' = [election_threads EXCEPT ![n][t].pc = "finish"]
    /\ UNCHANGED <<state, election_in_progress, group_view, last_heartbeat_time,
                   le_running, crashed, heartbeat_thread>>
    /\ UNCHANGED <<ftVars, srvVars, auxVars, followers_at_crash, answers>>

\* _start_election: self.election_in_progress = False; the thread ends
ElectionFinish(n, t) ==
    /\ election_threads[n][t].pc = "finish"
    /\ election_in_progress' = [election_in_progress EXCEPT ![n] = FALSE]
    /\ election_threads' = [election_threads EXCEPT ![n][t] = NoThread]
    /\ UNCHANGED <<state, current_leader, group_view, last_heartbeat_time,
                   le_running, crashed, heartbeat_thread, receiver_socket>>
    /\ UNCHANGED <<ftVars, srvVars, auxVars, followers_at_crash, answers>>

\* _handle_heartbeat; the HEARTBEAT_ACK goes to the address the heartbeat came
\* from, the leader's sending socket, which nothing reads
LEHandleHeartbeat(n, message) ==
    /\ last_heartbeat_time' = [last_heartbeat_time EXCEPT ![n] = 0]
    /\ IF current_leader[n] = None \/ current_leader[n] # Some(message.leader)
       THEN /\ current_leader' = [current_leader EXCEPT ![n] = Some(message.leader)]
            /\ state' = [state EXCEPT ![n] = "follower"]
       ELSE UNCHANGED <<current_leader, state>>
    /\ UNCHANGED <<election_threads, answers>>

\* a comparison under which every sender is of lower priority
AnyPriority(sender, n) == TRUE

\* `sender_node < self.node_id` (NodeIdentifier.__lt__)
HasLowerPriority(sender, n) == sender < n

\* _handle_election_request; the ANSWER goes to the address the request came
\* from, the requester's sending socket, which nothing reads
HandleElectionRequest(n, message) ==
    /\ CanTrigger(n)
    /\ answers' =
         IF HasLowerPriority(message.sender, n) /\ le_running[message.sender]
         THEN [answers EXCEPT ![message.sender] = @ \cup {n}]     \* _send_election_answer
         ELSE answers
    /\ election_threads' =
         IF HasLowerPriority(message.sender, n) /\ ~election_in_progress[n]
         THEN [election_threads EXCEPT ![n] = TriggerElection(n)]
         ELSE election_threads
    /\ UNCHANGED <<state, current_leader, last_heartbeat_time>>

\* _handle_coordinator_message
HandleCoordinatorMessage(n, message) ==
    /\ current_leader' = [current_leader EXCEPT ![n] = Some(message.leader)]
    /\ state' = [state EXCEPT ![n] = "follower"]
    /\ last_heartbeat_time' = [last_heartbeat_time EXCEPT ![n] = 0]
    /\ UNCHANGED <<election_threads, answers>>

\* _election_monitor, one datagram off the receiver socket, and
\* _handle_election_message on it
HandleElectionMessage(n) ==
    /\ le_running[n]
    /\ receiver_socket[n] # <<>>
    /\ LET message == Head(receiver_socket[n])
       IN  CASE message.type = "heartbeat" -> LEHandleHeartbeat(n, message)
             [] message.type = "election" -> HandleElectionRequest(n, message)
             [] message.type = "coordinator" -> HandleCoordinatorMessage(n, message)
    /\ receiver_socket' = [receiver_socket EXCEPT ![n] = Tail(@)]
    /\ UNCHANGED <<election_in_progress, group_view, le_running, crashed,
                   heartbeat_thread>>
    /\ UNCHANGED <<ftVars, srvVars, auxVars, followers_at_crash>>

\* a monitor that never finds the leader silent
NeverDead(n) == FALSE

\* _is_leader_dead
IsLeaderDead(n) == last_heartbeat_time[n] > heartbeat_timeout

\* _heartbeat_monitor, one pass
HeartbeatMonitor(n) ==
    /\ le_running[n]
    /\ heartbeat_thread[n].pc = "sleep"
    /\ heartbeat_thread[n].timer = 0
    /\ IF state[n] = "leader"
       THEN /\ receiver_socket' = Multicast(n, HeartbeatMessage(n), 1)    \* _send_heartbeat
            /\ UNCHANGED <<current_leader, election_threads>>
       ELSE IF current_leader[n] # None /\ IsLeaderDead(n)
       THEN /\ CanTrigger(n)
            /\ current_leader' = [current_leader EXCEPT ![n] = None]
            /\ election_threads' = [election_threads EXCEPT ![n] = TriggerElection(n)]
            /\ UNCHANGED receiver_socket
       ELSE UNCHANGED <<current_leader, election_threads, receiver_socket>>
    /\ heartbeat_thread' = [heartbeat_thread EXCEPT ![n].timer = le_heartbeat_interval]
    /\ UNCHANGED <<state, election_in_progress, group_view, last_heartbeat_time,
                   le_running, crashed>>
    /\ UNCHANGED <<ftVars, srvVars, auxVars, followers_at_crash, answers>>

\* the server's process is killed: its threads end, its sockets close
Crash(n) ==
    /\ le_running[n]
    /\ Cardinality({m \in Servers : crashed[m]}) < MaxCrashes
    /\ crashed' = [crashed EXCEPT ![n] = TRUE]
    /\ le_running' = [le_running EXCEPT ![n] = FALSE]
    /\ election_threads' = [election_threads EXCEPT ![n] = [t \in 1..MaxThreads |-> NoThread]]
    /\ heartbeat_thread' = [heartbeat_thread EXCEPT ![n] = Stopped]
    /\ receiver_socket' = [receiver_socket EXCEPT ![n] = <<>>]
    /\ followers_at_crash' =
         IF state[n] = "leader"
         THEN {m \in Servers \ {n} : /\ le_running[m]
                                     /\ state[m] = "follower"
                                     /\ current_leader[m] = Some(n)}
         ELSE {}
    /\ answers' = [answers EXCEPT ![n] = {}]
    /\ UNCHANGED <<state, current_leader, election_in_progress, group_view,
                   last_heartbeat_time>>
    /\ UNCHANGED <<ftVars, srvVars, auxVars>>

\* an election thread is asleep and not due
Asleep(thread) == thread.pc = "none" \/ (thread.pc = "sleep" /\ thread.timer > 0)

\* one second passes: no datagram waits on a receiver socket, no election
\* thread is between two sleeps, no sleep is over
LESecond ==
    /\ \A n \in Servers :
          /\ receiver_socket[n] = <<>>
          /\ \A t \in 1..MaxThreads : Asleep(election_threads[n][t])
          /\ NotDue(heartbeat_thread[n])
    /\ last_heartbeat_time' = [n \in Servers |->
          Min(last_heartbeat_time[n] + 1, heartbeat_timeout + 1)]
    /\ election_threads' = [n \in Servers |->
          [t \in 1..MaxThreads |-> Slept(election_threads[n][t])]]
    /\ heartbeat_thread' = [n \in Servers |-> Slept(heartbeat_thread[n])]
    /\ UNCHANGED <<state, current_leader, election_in_progress, group_view,
                   le_running, crashed, receiver_socket>>
    /\ UNCHANGED <<followers_at_crash, answers>>

\* a second passes for the elections
TickLE == LESecond /\ UNCHANGED <<ftVars, srvVars, auxVars>>

(***************************************************************************)
(* GroupView (Attempt1/GroupView.py): the unified view of a server process *)
(* and the threads that call it.  `with self.lock` on a threading.Lock: a  *)
(* thread enters when the lock is free and waits while another holds it;   *)
(* a thread that asks for the lock it holds itself waits for ever.         *)
(***************************************************************************)
MaxListeners == 1   \* add_event_callback calls per GroupView
MaxCalls == 2       \* calls made by the thread that uses the GroupView's API

server_timeout == 30    \* GroupView.server_timeout
client_timeout == 60    \* GroupView.client_timeout
cleanup_sleep == 15     \* time.sleep(15) of GroupView._cleanup_loop

\* str(server_id)
StrOf(i) == CASE i = 1 -> "1" [] i = 2 -> "2" [] i = 3 -> "3" [] OTHER -> "0"

Clients == {"alice"}

\* the threads of a server process that call the GroupView
Threads == {"main", "receiver", "cleanup", "detector", "discovery"}

\* listeners: one that prints the event, one that looks the participant up
\* with group_view.get_participant(participant.id)
Listeners == {"print", "get_participant"}

NoGVCall == [op |-> "none", id |-> "", type |-> ""]

GVCall(op, id, type) == [op |-> op, id |-> id, type |-> type]

\* a thread waiting for GroupView.lock while it holds the lock itself
Deadlocked(in) == [op |-> "deadlock", id |-> in, type |-> ""]

\* Participant(participant_id, participant_type, ...): last_seen = time.time()
Participant(id, type) == [id |-> id, type |-> type, last_seen |-> 0]

\* the keys of the participants dict
GVIds(ps) == {ps[i].id : i \in DOMAIN ps}

\* Participant.update_activity, on the participant of that id
UpdateActivity(ps, id) ==
    [i \in DOMAIN ps |-> IF ps[i].id = id THEN [ps[i] EXCEPT !.last_seen = 0] ELSE ps[i]]

\* self.participants.pop(id)
RECURSIVE Pop(_, _)
Pop(ps, id) ==
    IF ps = <<>> THEN <<>>
    ELSE IF Head(ps).id = id THEN Tail(ps)
    ELSE <<Head(ps)>> \o Pop(Tail(ps), id)

\* `current_time - participant.last_seen > timeout`, timeout by type
Inactive(p) ==
    p.last_seen > (IF p.type = "server" THEN server_timeout ELSE client_timeout)

\* inactive_participants of _cleanup_inactive_participants, in dict order
RECURSIVE InactiveParticipants(_)
InactiveParticipants(ps) ==
    IF ps = <<>> THEN <<>>
    ELSE (IF Inactive(Head(ps)) THEN <<Head(ps).id>> ELSE <<>>)
         \o InactiveParticipants(Tail(ps))

\* the participants left after each id of the sequence is popped
RECURSIVE PopAll(_, _)
PopAll(ps, ids) == IF ids = <<>> THEN ps ELSE PopAll(Pop(ps, Head(ids)), Tail(ids))

\* _notify_event reaches a listener that asks for GroupView.lock
Reenters(n) == \E i \in DOMAIN event_callbacks[n] : event_callbacks[n][i] = "get_participant"

\* the body a call runs under `with self.lock`: the participants it leaves,
\* the events it hands to _notify_event (each with the lock held or not), and
\* the method in which the thread asks for the lock again, if it does.  With a
\* listener that asks for the lock, the first notification is where the
\* thread stays.
GVBody(n, c) ==
    LET ps == participants[n]
        inactive == InactiveParticipants(ps)
        quiet == [ps |-> ps, events |-> <<>>, stuck |-> "", result |-> "None"]
        Notify(after, event, id) ==
            [ps |-> after,
             events |-> IF event_callbacks[n] = <<>> THEN <<>>
                        ELSE <<[event |-> event, id |-> id, locked |-> TRUE]>>,
             stuck |-> IF Reenters(n) THEN "get_participant" ELSE "",
             result |-> IF event = "timeout" THEN "None" ELSE "True"]
    IN  CASE c.op = "add_participant" ->
               IF c.id \in GVIds(ps)
               THEN [quiet EXCEPT !.ps = UpdateActivity(ps, c.id), !.result = "False"]
               ELSE Notify(Append(ps, Participant(c.id, c.type)), "join", c.id)
          [] c.op = "remove_participant" ->
               IF c.id \in GVIds(ps)
               THEN Notify(Pop(ps, c.id), "leave", c.id)
               ELSE [quiet EXCEPT !.result = "False"]
          [] c.op = "update_participant_activity" ->
               [quiet EXCEPT !.ps = UpdateActivity(ps, c.id)]
          [] c.op = "_cleanup_inactive_participants" ->
               IF inactive = <<>> THEN quiet
               ELSE IF Reenters(n)
               THEN Notify(Pop(ps, Head(inactive)), "timeout", Head(inactive))
               ELSE [ps |-> PopAll(ps, inactive),
                     events |-> IF event_callbacks[n] = <<>> THEN <<>>
                                ELSE [i \in DOMAIN inactive |->
                                        [event |-> "timeout", id |-> inactive[i],
                                         locked |-> TRUE]],
                     stuck |-> "", result |-> "None"]
          [] c.op = "get_system_status" ->
               [quiet EXCEPT !.stuck = "get_participant_count"]

\* a call that has not returned
NotReturned == "no return"

NoLog == [notified |-> <<>>, calls |-> 0, received |-> 0, quiet |-> 0,
          peak |-> 0, message |-> <<>>, reply |-> <<>>, returned |-> "None"]

\* the discovery thread before start_discovery: nothing read, no callback
NoDiscovery == [pc |-> "off", id |-> 0, handled |-> 0, message |-> <<>>, fired |-> <<>>]

InitSrv ==
    /\ participants = [n \in Nodes |-> <<>>]
    /\ gv_lock = [n \in Nodes |-> "free"]
    /\ event_callbacks = [n \in Nodes |-> <<>>]
    /\ gv_call = [n \in Nodes |-> [th \in Threads |-> NoGVCall]]
    /\ group_view_servers = [n \in Nodes |-> {}]
    /\ server_last_seen = [n \in Nodes |-> <<>>]
    /\ main_thread = [n \in Nodes |-> Stopped]
    /\ receiver_thread = [n \in Nodes |-> Stopped]
    /\ cleanup_thread = [n \in Nodes |-> Stopped]
    /\ cleanup_loop = [n \in Nodes |-> Stopped]
    /\ srv_log = [n \in Nodes |-> NoLog]
    /\ discovered_servers = [n \in Nodes |-> {}]
    /\ discovery_thread = [n \in Nodes |-> NoDiscovery]

\* GroupView.start(): the cleanup thread begins with its sleep
GVStart(n) ==
    /\ cleanup_thread[n].pc = "off"
    /\ cleanup_thread' = [cleanup_thread EXCEPT ![n] =
                            [pc |-> "sleep", timer |-> cleanup_sleep]]
    /\ UNCHANGED <<participants, gv_lock, event_callbacks, gv_call, group_view_servers,
                   server_last_seen, main_thread, receiver_thread, cleanup_loop,
                   srv_log>>
    /\ UNCHANGED <<ftVars, leVars, auxVars, dmVars>>

\* add_event_callback(callback)
AddEventCallback(n, listener) ==
    /\ Len(event_callbacks[n]) < MaxListeners
    /\ event_callbacks' = [event_callbacks EXCEPT ![n] = Append(@, listener)]
    /\ UNCHANGED <<participants, gv_lock, gv_call, group_view_servers,
                   server_last_seen, main_thread, receiver_thread, cleanup_thread,
                   cleanup_loop, srv_log>>
    /\ UNCHANGED <<ftVars, leVars, auxVars, dmVars>>

\* the calls a user of the GroupView makes
ApiCalls ==
    {GVCall("add_participant", "alice", "client"),
     GVCall("add_participant", "2", "server"),
     GVCall("remove_participant", "alice", ""),
     GVCall("update_participant_activity", "alice", ""),
     GVCall("get_system_status", "", "")}

\* a thread that uses the GroupView begins a call
GVUse(n, c) ==
    /\ gv_call[n]["main"] = NoGVCall
    /\ srv_log[n].calls < MaxCalls
    /\ gv_call' = [gv_call EXCEPT ![n]["main"] = c]
    /\ srv_log' = [srv_log EXCEPT ![n].calls = @ + 1]
    /\ UNCHANGED <<participants, gv_lock, event_callbacks, group_view_servers,
                   server_last_seen, main_thread, receiver_thread, cleanup_thread,
                   cleanup_loop>>
    /\ UNCHANGED <<ftVars, leVars, auxVars, dmVars>>

\* _cleanup_loop: the sleep is over, _cleanup_inactive_participants is called
CleanupWake(n) ==
    /\ cleanup_thread[n].pc = "sleep"
    /\ cleanup_thread[n].timer = 0
    /\ cleanup_thread' = [cleanup_thread EXCEPT ![n] = [pc |-> "call", timer |-> 0]]
    /\ gv_call' = [gv_call EXCEPT ![n]["cleanup"] =
                     GVCall("_cleanup_inactive_participants", "", "")]
    /\ UNCHANGED <<participants, gv_lock, event_callbacks, group_view_servers,
                   server_last_seen, main_thread, receiver_thread, cleanup_loop,
                   srv_log>>
    /\ UNCHANGED <<ftVars, leVars, auxVars, dmVars>>

\* a thread is in a call that has not taken the lock yet
Calling(n, th) == gv_call[n][th].op \notin {"none", "deadlock"}

\* a thread's call takes GroupView.lock and runs to its return, which frees
\* the lock, or to the place where the thread asks for the lock it holds
GVEnter(n, th) ==
    /\ Calling(n, th)
    /\ gv_lock[n] = "free"
    /\ LET r == GVBody(n, gv_call[n][th])
       IN  /\ participants' = [participants EXCEPT ![n] = r.ps]
           /\ srv_log' = [srv_log EXCEPT ![n].notified = @ \o r.events,
                                         ![n].returned = IF r.stuck = "" THEN r.result
                                                         ELSE NotReturned]
           /\ gv_lock' = [gv_lock EXCEPT ![n] = IF r.stuck = "" THEN "free" ELSE th]
           /\ gv_call' = [gv_call EXCEPT ![n][th] =
                            IF r.stuck = "" THEN NoGVCall ELSE Deadlocked(r.stuck)]
           /\ cleanup_thread' =
                 IF th = "cleanup" /\ r.stuck = ""
                 THEN [cleanup_thread EXCEPT ![n] =
                         [pc |-> "sleep", timer |-> cleanup_sleep]]
                 ELSE cleanup_thread
    /\ UNCHANGED <<event_callbacks, group_view_servers, server_last_seen, main_thread,
                   receiver_thread, cleanup_loop>>
    /\ UNCHANGED <<ftVars, leVars, auxVars, dmVars>>

\* no thread of the process can take a step of a GroupView call
NoneEntering(n) == gv_lock[n] = "free" => \A th \in Threads : ~Calling(n, th)

\* a second passes for the GroupView
Aged(ps) ==
    [i \in DOMAIN ps |-> [ps[i] EXCEPT !.last_seen = Min(@ + 1, client_timeout + 1)]]

TickGV ==
    /\ \A n \in Nodes : NotDue(cleanup_thread[n]) /\ NoneEntering(n)
    /\ participants' = [n \in Nodes |-> Aged(participants[n])]
    /\ cleanup_thread' = [n \in Nodes |-> Slept(cleanup_thread[n])]
    /\ UNCHANGED <<gv_lock, event_callbacks, gv_call, group_view_servers,
                   server_last_seen, main_thread, receiver_thread, cleanup_loop,
                   srv_log>>
    /\ UNCHANGED <<ftVars, leVars, auxVars, dmVars>>


(***************************************************************************)
(* Server.py: the main thread, the multicast_receiver thread, the legacy   *)
(* views and their cleanup_loop, and the recovery callbacks registered     *)
(* with the FaultToleranceManager.  Server n runs on host n; its server_id *)
(* is n.  trigger_election, get_current_leader and detect_leader_failure,  *)
(* imported from LeaderElection, are not functions of that module: their   *)
(* calls are left out.                                                     *)
(***************************************************************************)
MaxReceived == 2        \* datagrams the multicast_receiver thread reads

SERVER_TIMEOUT == 30    \* resources.utils.SERVER_TIMEOUT
cleanup_loop_sleep == 15    \* time.sleep(15) of cleanup_loop
startup_wait == 6       \* time.sleep(1) and time.sleep(5) of the main thread

\* getIP() and socket.gethostname() of the host of server s
IpOf(s) == CASE s = 1 -> "10.0.0.1" [] s = 2 -> "10.0.0.2" [] s = 3 -> "10.0.0.3"

HostnameOf(s) == CASE s = 1 -> "host1" [] s = 2 -> "host2" [] s = 3 -> "host3"

\* generate_server_id(server_ip, hostname): the id of the server on that
\* host, and for any other pair of strings an id that no server has
GenerateServerId(server_ip, hostname) ==
    IF \E s \in 1..3 : IpOf(s) = server_ip /\ HostnameOf(s) = hostname
    THEN CHOOSE s \in 1..3 : IpOf(s) = server_ip /\ HostnameOf(s) = hostname
    ELSE 0

\* a datagram's text, as msg.split(":") gives it, and a JSON datagram
Text(parts) == [json |-> FALSE, body |-> parts]

Json(d) == [json |-> TRUE, body |-> d]

\* Client.join_chat, send_heartbeat and request_status: the texts sent
JoinMessage(c) == <<"join", c, "general">>

ClientHeartbeatMessage(c) == <<"client_heartbeat", c, "general">>

StatusMessage == <<"status">>

ClientMessages ==
    {JoinMessage("alice"), ClientHeartbeatMessage("alice"), StatusMessage}

\* announce_server and DiscoveryManager._perform_discovery_round: the texts
ServerAliveMessage(s) == <<"SERVER_ALIVE", IpOf(s), HostnameOf(s)>>

ServerProbeMessage(s) == <<"SERVER_PROBE", IpOf(s), StrOf(s)>>

\* the SERVER_RESPONSE of server s
ServerResponse(s) == <<"SERVER_RESPONSE", HostnameOf(s), IpOf(s)>>

\* msg.startswith(prefix + ":")
StartsWith(parts, prefix) == Len(parts) >= 2 /\ parts[1] = prefix

Received == <<"Your message was received">>

\* the test of the SERVER_ALIVE branch before trigger_election(): the manager
\* exists (it is made before the receiver thread), its partition detection is
\* enabled, and the legacy server set, the announced id added, has more than
\* one element
ElectionOnAnnouncement(n, id) ==
    /\ partition_detection_enabled[n]
    /\ Cardinality(group_view_servers[n] \cup {id}) > 1

\* f"SERVER_RESPONSE:{hostname}:{server_ip}": hostname is the module's name,
\* server_ip the function's own, assigned in the SERVER_ALIVE branch; while
\* it is not bound the f-string raises UnboundLocalError, the handler of the
\* loop prints it and nothing is sent
ProbeReply(n) ==
    IF receiver_locals[n].server_ip = None THEN None
    ELSE Some(Text(<<"SERVER_RESPONSE", HostnameOf(n), receiver_locals[n].server_ip[1]>>))

\* multicast_receiver on a text, after handle_message: the branch taken, up
\* to its GroupView call; the reply is sent when the call has returned
TextBranch(n, parts) ==
    LET plain == [call |-> NoGVCall, reply |-> None,
                  servers |-> group_view_servers[n], seen |-> server_last_seen[n],
                  server_ip |-> receiver_locals[n].server_ip, triggered |-> FALSE]
    IN  IF parts = <<"join">> \/ StartsWith(parts, "join")
        THEN [plain EXCEPT
                !.call = GVCall("add_participant",
                                IF StartsWith(parts, "join") THEN parts[2] ELSE "addr",
                                "client"),
                !.reply = Some(Text(<<"Welcome">>))]
        ELSE IF StartsWith(parts, "SERVER_ALIVE")
        THEN IF Len(parts) >= 3 /\ GenerateServerId(parts[2], parts[3]) # n
             THEN LET id == GenerateServerId(parts[2], parts[3])
                  IN  [plain EXCEPT
                         !.server_ip = Some(parts[2]),
                         !.servers = @ \cup {id},
                         !.seen = DictPut(@, id, 0),
                         !.call = GVCall("add_participant", StrOf(id), "server"),
                         !.triggered = ElectionOnAnnouncement(n, id)]
             ELSE IF Len(parts) >= 3
             THEN [plain EXCEPT !.server_ip = Some(parts[2])]
             ELSE plain
        ELSE IF StartsWith(parts, "SERVER_PROBE")
        THEN IF Len(parts) >= 3 /\ parts[3] = StrOf(n)
             THEN plain
             ELSE [plain EXCEPT !.reply = ProbeReply(n)]
        ELSE IF StartsWith(parts, "CLIENT_HEARTBEAT")
        THEN [plain EXCEPT !.call = GVCall("update_participant_activity", parts[2], "")]
        ELSE IF parts = <<"status">>
        THEN [plain EXCEPT !.call = GVCall("get_system_status", "", ""),
                           !.reply = Some(Text(<<"System Status">>))]
        ELSE [plain EXCEPT !.reply = Some(Text(Received))]

\* the receiver thread is at recvfrom
AtRecv(n) == receiver_thread[n].pc = "recv" /\ gv_call[n]["receiver"] = NoGVCall

\* multicast_receiver reads a text datagram: handle_message counts it as
\* BYZANTINE (json.JSONDecodeError) and returns None, then the branch
ReceiveText(n, parts) ==
    /\ AtRecv(n)
    /\ srv_log[n].received < MaxReceived
    /\ fault_stats' = [fault_stats EXCEPT ![n].byzantine = @ + 1]
    /\ ft_last' = [NoCall EXCEPT !.node = n, !.dgram = [type |-> "text"],
                                 !.byzantine = 1]
    /\ LET b == TextBranch(n, parts)
       IN  /\ gv_call' = [gv_call EXCEPT ![n]["receiver"] = b.call]
           /\ group_view_servers' = [group_view_servers EXCEPT ![n] = b.servers]
           /\ server_last_seen' = [server_last_seen EXCEPT ![n] = b.seen]
           /\ srv_log' = [srv_log EXCEPT ![n].received = @ + 1,
                                         ![n].quiet = 0,
                                         ![n].message = Some(Text(parts)),
                                         ![n].reply = b.reply]
           /\ receiver_locals' = [receiver_locals EXCEPT ![n] =
                 [server_ip |-> b.server_ip, triggered |-> b.triggered]]
    /\ UNCHANGED <<participants, gv_lock, event_callbacks, main_thread,
                   receiver_thread, cleanup_thread, cleanup_loop>>
    /\ UNCHANGED <<running, rmVars, fdVars, pdVars, leVars, dmVars>>
    /\ UNCHANGED <<members, view_last, raceVars, phaseVars>>

\* what multicast_receiver sends back after handle_message on a JSON datagram
\* of the manager: the heartbeat_ack, and for every other result the text of
\* its last branch
ReceiverReply(result) ==
    IF result # None /\ result[1].type = "heartbeat_ack"
    THEN Some(Json(result[1]))
    ELSE Some(Text(Received))

\* multicast_receiver reads a HEARTBEAT or PARTITION_PROBE datagram
ReceiveJson(n, d) ==
    /\ AtRecv(n)
    /\ srv_log[n].received < MaxReceived
    /\ \/ d.type = "HEARTBEAT" /\ HeartbeatHandled(n, d)
       \/ d.type = "PARTITION_PROBE" /\ ProbeHandled(n, d)
    /\ srv_log' = [srv_log EXCEPT ![n].received = @ + 1,
                                  ![n].quiet = 0,
                                  ![n].message = Some(Json(d)),
                                  ![n].reply = ReceiverReply(ft_last'.result)]
    /\ UNCHANGED <<participants, gv_lock, event_callbacks, gv_call, group_view_servers,
                   server_last_seen, main_thread, receiver_thread, cleanup_thread,
                   cleanup_loop>>
    /\ UNCHANGED <<leVars, auxVars, dmVars>>

\* __main__ up to the first GroupView call: start_group_view,
\* start_server_discovery (the cleanup_loop thread), the legacy views, and
\* group_view.add_participant(str(server_id), 'server', ...)
SrvStart(n) ==
    /\ main_thread[n].pc = "off"
    /\ cleanup_thread[n].pc = "off"
    /\ cleanup_thread' = [cleanup_thread EXCEPT ![n] =
                            [pc |-> "sleep", timer |-> cleanup_sleep]]
    /\ cleanup_loop' = [cleanup_loop EXCEPT ![n] =
                          [pc |-> "sleep", timer |-> cleanup_loop_sleep]]
    /\ group_view_servers' = [group_view_servers EXCEPT ![n] = @ \cup {n}]
    /\ server_last_seen' = [server_last_seen EXCEPT ![n] = DictPut(@, n, 0)]
    /\ gv_call' = [gv_call EXCEPT ![n]["main"] =
                     GVCall("add_participant", StrOf(n), "server")]
    /\ main_thread' = [main_thread EXCEPT ![n] = [pc |-> "init", timer |-> 0]]
    /\ UNCHANGED <<participants, gv_lock, event_callbacks, receiver_thread, srv_log>>
    /\ UNCHANGED <<ftVars, leVars, auxVars, dmVars>>

\* ft_manager.start(), once add_participant has returned
SrvFTStart(n) ==
    /\ main_thread[n].pc = "init"
    /\ gv_call[n]["main"] = NoGVCall
    /\ FTStart(n)

\* the receiver thread is started; time.sleep(1), start_discovery, time.sleep(5)
SrvReceiverStart(n) ==
    /\ main_thread[n].pc = "init"
    /\ running[n]
    /\ receiver_thread' = [receiver_thread EXCEPT ![n] = [pc |-> "recv", timer |-> 0]]
    /\ main_thread' = [main_thread EXCEPT ![n] = [pc |-> "sleep", timer |-> startup_wait]]
    /\ UNCHANGED <<participants, gv_lock, event_callbacks, gv_call, group_view_servers,
                   server_last_seen, cleanup_thread, cleanup_loop, srv_log>>
    /\ UNCHANGED <<ftVars, leVars, auxVars, dmVars>>

\* showSystemcomponents(): print_system_status() calls get_system_status
ShowSystemComponents(n) ==
    /\ main_thread[n].pc = "sleep"
    /\ main_thread[n].timer = 0
    /\ main_thread' = [main_thread EXCEPT ![n] = [pc |-> "show", timer |-> 0]]
    /\ gv_call' = [gv_call EXCEPT ![n]["main"] = GVCall("get_system_status", "", "")]
    /\ UNCHANGED <<participants, gv_lock, event_callbacks, group_view_servers,
                   server_last_seen, receiver_thread, cleanup_thread, cleanup_loop,
                   srv_log>>
    /\ UNCHANGED <<ftVars, leVars, auxVars, dmVars>>

\* `current_time - server_last_seen.get(server_check_id, 0) > SERVER_TIMEOUT`
DeadServers(n) ==
    {id \in group_view_servers[n] \ {n} :
        id \in DOMAIN server_last_seen[n] => server_last_seen[n][id] > SERVER_TIMEOUT}

\* cleanup_loop: the sleep is over, cleanup_dead_servers runs
CleanupDeadServers(n) ==
    /\ cleanup_loop[n].pc = "sleep"
    /\ cleanup_loop[n].timer = 0
    /\ group_view_servers' = [group_view_servers EXCEPT ![n] = @ \ DeadServers(n)]
    /\ server_last_seen' = [server_last_seen EXCEPT ![n] =
          [id \in DOMAIN @ \ DeadServers(n) |-> @[id]]]
    /\ cleanup_loop' = [cleanup_loop EXCEPT ![n].timer = cleanup_loop_sleep]
    /\ UNCHANGED <<participants, gv_lock, event_callbacks, gv_call, main_thread,
                   receiver_thread, cleanup_thread, srv_log>>
    /\ UNCHANGED <<ftVars, leVars, auxVars, dmVars>>

\* the failure detection thread is not inside on_crash_recovery
DetectorFree(n) == gv_call[n]["detector"] = NoGVCall

\* _failure_detection_loop begins a pass, in a server process
DetectorBegin(n) == DetectorFree(n) /\ FailureScanBegin(n)

\* the loop body in a server process: the CRASH callback is
\* on_crash_recovery, which discards int(failed_node_id) from
\* group_view_servers and calls group_view.remove_participant
DetectorStep(n) ==
    /\ DetectorFree(n)
    /\ ScanStep(n)
    /\ LET item == Head(failure_loop[n].items)
       IN  IF item.expired /\ item.id \notin failed_nodes[n]
           THEN /\ group_view_servers' = [group_view_servers EXCEPT ![n] = @ \ {item.id}]
                /\ gv_call' = [gv_call EXCEPT ![n]["detector"] =
                                 GVCall("remove_participant", StrOf(item.id), "")]
           ELSE UNCHANGED <<group_view_servers, gv_call>>
    /\ UNCHANGED <<participants, gv_lock, event_callbacks, server_last_seen,
                   main_thread, receiver_thread, cleanup_thread, cleanup_loop, srv_log>>
    /\ UNCHANGED <<leVars, auxVars, dmVars>>

(***************************************************************************)
(* DiscoveryManager in the server process.  The discovery thread sends     *)
(* SERVER_PROBE and reads what comes back on its probe socket, round after *)
(* round; the pauses between rounds, when nothing is read, are not         *)
(* distinguished from a round in which nothing arrives.                    *)
(***************************************************************************)
MaxDiscovered == 2      \* datagrams the discovery thread reads

\* _announcement_loop: f"SERVER_ALIVE:{server_ip}:{hostname}:{discovery_phase}"
DiscoveryAliveMessage(s) == <<"SERVER_ALIVE", IpOf(s), HostnameOf(s), "STARTUP">>

\* the texts that name server s itself
OwnAnnouncements(s) == {ServerAliveMessage(s), DiscoveryAliveMessage(s)}

\* a comparison that takes no id for the node's own
NeverOwnId(n, id) == FALSE

\* the negation of `str(server_id) != str(self.server_id)`
IsOwnId(n, id) == StrOf(id) = StrOf(n)

\* _process_server_response: parts are type, hostname, server_ip;
\* _process_server_alive: parts are type, server_ip, hostname
DiscoveredId(parts) ==
    IF parts[1] = "SERVER_RESPONSE"
    THEN GenerateServerId(parts[3], parts[2])
    ELSE GenerateServerId(parts[2], parts[3])

\* the main thread has slept its first second: discovery_manager.start_discovery()
DiscoveryDue(n) == main_thread[n].pc = "sleep" /\ main_thread[n].timer < startup_wait

\* start_discovery: the discovery thread begins its first round
DiscoveryStart(n) ==
    /\ DiscoveryDue(n)
    /\ discovery_thread[n].pc = "off"
    /\ discovery_thread' = [discovery_thread EXCEPT ![n].pc = "listen"]
    /\ UNCHANGED <<participants, gv_lock, event_callbacks, gv_call, group_view_servers,
                   server_last_seen, main_thread, receiver_thread, cleanup_thread,
                   cleanup_loop, srv_log, discovered_servers>>
    /\ UNCHANGED <<ftVars, leVars, auxVars>>

\* _perform_discovery_round reads a SERVER_RESPONSE or a SERVER_ALIVE:
\* _process_server_response or _process_server_alive, up to the GroupView call
\* of the server_discovered callback (on_server_discovered)
DiscoveryProcess(n, parts) ==
    /\ discovery_thread[n].pc = "listen"
    /\ discovery_thread[n].handled < MaxDiscovered
    /\ parts[1] \in {"SERVER_RESPONSE", "SERVER_ALIVE"}
    /\ LET found == Len(parts) >= 3 /\ ~IsOwnId(n, DiscoveredId(parts))
           id == DiscoveredId(parts)
       IN  /\ discovered_servers' =
                 IF found THEN [discovered_servers EXCEPT ![n] = @ \cup {StrOf(id)}]
                 ELSE discovered_servers
           /\ group_view_servers' =
                 IF found THEN [group_view_servers EXCEPT ![n] = @ \cup {id}]
                 ELSE group_view_servers
           /\ server_last_seen' =
                 IF found THEN [server_last_seen EXCEPT ![n] = DictPut(@, id, 0)]
                 ELSE server_last_seen
           /\ gv_call' =
                 IF found
                 THEN [gv_call EXCEPT ![n]["discovery"] =
                         GVCall("add_participant", StrOf(id), "server")]
                 ELSE gv_call
           /\ discovery_thread' = [discovery_thread EXCEPT ![n] =
                 [pc |-> IF found THEN "callback" ELSE "listen",
                  id |-> IF found THEN id ELSE 0,
                  handled |-> @.handled + 1,
                  message |-> Some(Text(parts)),
                  fired |-> IF found THEN <<id>> ELSE <<>>]]
    /\ UNCHANGED <<participants, gv_lock, event_callbacks, main_thread,
                   receiver_thread, cleanup_thread, cleanup_loop, srv_log>>
    /\ UNCHANGED <<ftVars, leVars, auxVars>>

\* on_server_discovered after add_participant has returned:
\* ft_manager.partition_detector.add_known_node(str(discovered_server_id))
DiscoveryKnown(n) ==
    /\ discovery_thread[n].pc = "callback"
    /\ gv_call[n]["discovery"] = NoGVCall
    /\ known_nodes' = [known_nodes EXCEPT ![n] = @ \cup {discovery_thread[n].id}]
    /\ discovery_thread' = [discovery_thread EXCEPT ![n].pc = "listen", ![n].id = 0]
    /\ UNCHANGED <<reachable_nodes, in_partition, partition_detection_enabled,
                   partition_start_time, startup_time, partition_loop, pd_last,
                   on_partition, rounds>>
    /\ UNCHANGED <<commonVars, rmVars, fdVars, leVars, auxVars>>
    /\ UNCHANGED <<participants, gv_lock, event_callbacks, gv_call, group_view_servers,
                   server_last_seen, main_thread, receiver_thread, cleanup_thread,
                   cleanup_loop, srv_log, discovered_servers>>

\* a thread of the process is due, or can enter the GroupView
SrvIdle(n) ==
    /\ NotDue(main_thread[n])
    /\ main_thread[n].pc = "init" => gv_call[n]["main"] # NoGVCall
    /\ DiscoveryDue(n) => discovery_thread[n].pc # "off"
    /\ discovery_thread[n].pc = "callback" => gv_call[n]["discovery"] # NoGVCall
    /\ NotDue(cleanup_thread[n])
    /\ NotDue(cleanup_loop[n])
    /\ DetectorFree(n) => (failure_loop[n].pc # "scan" /\ NotDue(failure_loop[n]))
    /\ NoneEntering(n)

\* a second passes for the server processes that run; a thread inside a call
\* does not sleep
SrvSecond ==
    /\ \E n \in Nodes : main_thread[n].pc # "off"
    /\ \A n \in Nodes : SrvIdle(n)
    /\ participants' = [n \in Nodes |-> Aged(participants[n])]
    /\ server_last_seen' = [n \in Nodes |->
          [id \in DOMAIN server_last_seen[n] |->
             Min(server_last_seen[n][id] + 1, SERVER_TIMEOUT + 1)]]
    /\ node_last_seen' = [n \in Nodes |->
          [i \in DOMAIN node_last_seen[n] |->
             [node_last_seen[n][i] EXCEPT !.age = Min(@ + 1, failure_timeout + 1)]]]
    /\ failure_loop' = [n \in Nodes |->
          IF DetectorFree(n) THEN Slept(failure_loop[n]) ELSE failure_loop[n]]
    /\ main_thread' = [n \in Nodes |-> Slept(main_thread[n])]
    /\ cleanup_thread' = [n \in Nodes |-> Slept(cleanup_thread[n])]
    /\ cleanup_loop' = [n \in Nodes |-> Slept(cleanup_loop[n])]
    /\ srv_log' = [n \in Nodes |->
          [srv_log[n] EXCEPT !.quiet = Min(@ + 1, SERVER_TIMEOUT)]]
    /\ UNCHANGED <<gv_lock, event_callbacks, gv_call, group_view_servers,
                   receiver_thread>>
    /\ UNCHANGED <<failed_nodes, leader_last_seen, leader_monitor, heartbeat_loop,
                   on_crash, heartbeats>>
    /\ UNCHANGED <<commonVars, rmVars, dmVars>>

\* a second passes for the server processes
TickSrv == SrvSecond /\ UNCHANGED <<pdVars, leVars, auxVars>>

(***************************************************************************)
(* NodeIdentifier and the GroupView of LeaderElection.py, on their own:    *)
(* identifiers of servers on several hosts, whose process ids may be the   *)
(* same number (handle_new_server_join gives a joining server without a    *)
(* 'process_id' the os.getpid() of the local process).                     *)
(***************************************************************************)
MaxPid == 2         \* the process ids are 1..MaxPid

Hosts == {"10.0.0.1", "10.0.0.2"}

\* NodeIdentifier(ip, port, process_id); its node_id f"{ip}:{port}:{process_id}"
\* is one string for each triple, and __eq__ and __hash__ go by that string
NodeIdentifier(ip, port, process_id) ==
    [ip |-> ip, port |-> port, process_id |-> process_id]

NodeIdentifiers == {NodeIdentifier(ip, 5008, pid) : ip \in Hosts, pid \in 1..MaxPid}

\* NodeIdentifier.__lt__
Lt(self, other) == self.process_id < other.process_id

\* `nid > node_id`: NodeIdentifier defines no __gt__, so Python evaluates the
\* reflected node_id.__lt__(nid)
Gt(nid, node_id) == Lt(node_id, nid)

\* GroupView.get_higher_nodes and get_lower_nodes on the keys of members
GetHigherNodesOf(ms, node_id) == {nid \in ms : Gt(nid, node_id)}

GetLowerNodes(ms, node_id) == {nid \in ms : Lt(nid, node_id)}

\* the threads of the program that call send_reliable_message of its manager
Callers == 1..MaxCallers

NotSending == [pc |-> "idle", counter |-> 0, msg_id |-> <<>>, message |-> <<>>]

\* DiscoveryManager.__init__; `last` is the procedure the loop ran last
NewDiscoveryManager ==
    [pc |-> "off", timer |-> 0, attempt |-> 0,
     discovery_phase |-> "startup", discovery_complete |-> FALSE,
     startup_complete |-> 0, joining_complete |-> 0, elections |-> 0, joins |-> 0,
     last |-> "none"]

\* multicast_receiver before its first datagram: server_ip is not bound
NoLocals == [server_ip |-> None, triggered |-> FALSE]

NoViewCall == [op |-> "none", node_id |-> <<>>, higher |-> {}, lower |-> {}]

InitAux ==
    /\ members = {}
    /\ view_last = NoViewCall
    /\ snapshot = [n \in Nodes |-> <<>>]
    /\ send_threads = [n \in Nodes |-> [t \in Callers |-> NotSending]]
    /\ stamps = [n \in Nodes |-> <<>>]
    /\ receiver_locals = [n \in Nodes |-> NoLocals]
    /\ discovery_loop = [n \in Nodes |-> NewDiscoveryManager]

\* GroupView.add_member
AddMember(node_id) ==
    /\ members' = members \cup {node_id}
    /\ view_last' = [NoViewCall EXCEPT !.op = "add_member", !.node_id = Some(node_id)]
    /\ UNCHANGED <<ftVars, leVars, srvVars, raceVars, receiver_locals, phaseVars>>

\* GroupView.remove_member
RemoveMember(node_id) ==
    /\ members' = members \ {node_id}
    /\ view_last' = [NoViewCall EXCEPT !.op = "remove_member", !.node_id = Some(node_id)]
    /\ UNCHANGED <<ftVars, leVars, srvVars, raceVars, receiver_locals, phaseVars>>

\* get_higher_nodes(node_id) and get_lower_nodes(node_id) of one view
GetNodes(node_id) ==
    /\ view_last' = [op |-> "get_nodes", node_id |-> Some(node_id),
                     higher |-> GetHigherNodesOf(members, node_id),
                     lower |-> GetLowerNodes(members, node_id)]
    /\ UNCHANGED members
    /\ UNCHANGED <<ftVars, leVars, srvVars, raceVars, receiver_locals, phaseVars>>

(***************************************************************************)
(* The phases of DiscoveryManager.  Its thread is followed from sleep to   *)
(* sleep; a discovery round lasts the probe timeout, nothing being read.   *)
(* What the rounds read is the matter of DiscoveryProcess.                 *)
(***************************************************************************)
dm_probe_timeout == 5           \* DiscoveryManager.probe_timeout
dm_max_retries == 3             \* DiscoveryManager.max_retries
retry_delay == 2                \* DiscoveryManager.retry_delay
startup_discovery_timeout == 15 \* DiscoveryManager.startup_discovery_timeout
settle_delay == 3               \* time.sleep(3) before trigger_election()
discovery_loop_sleep == 10      \* time.sleep(10) of _discovery_loop

\* a test that lets every phase go to JOINING
FromAnyPhase(phase) == TRUE

\* `if self.discovery_phase == DiscoveryPhase.RUNNING`
FromRunning(phase) == phase = "running"

\* the frame of the actions of the discovery manager
PhaseFrame == UNCHANGED <<ftVars, leVars, srvVars, members, view_last, raceVars,
                          receiver_locals>>

\* start_discovery(): the discovery thread begins its loop
PhaseStart(n) ==
    /\ discovery_loop[n].pc = "off"
    /\ discovery_loop' = [discovery_loop EXCEPT ![n].pc = "loop", ![n].timer = 0]
    /\ PhaseFrame

\* _discovery_loop, the head of an iteration: the phase chooses the
\* procedure, and the thread is in its first discovery round; in RUNNING the
\* round is run in ten seconds of every thirty
PhaseDispatch(n, maintain) ==
    /\ discovery_loop[n].pc = "loop"
    /\ discovery_loop[n].timer = 0
    /\ discovery_loop' = [discovery_loop EXCEPT ![n] =
          CASE @.discovery_phase = "startup" ->
                 [@ EXCEPT !.pc = "startup_round", !.attempt = 1,
                           !.timer = dm_probe_timeout]
            [] @.discovery_phase = "joining" ->
                 [@ EXCEPT !.pc = "joining_round", !.attempt = 1,
                           !.timer = dm_probe_timeout]
            [] OTHER ->
                 IF maintain
                 THEN [@ EXCEPT !.pc = "maintenance_round", !.timer = dm_probe_timeout]
                 ELSE [@ EXCEPT !.pc = "loop", !.timer = discovery_loop_sleep,
                                !.last = "idle"]]
    /\ PhaseFrame

\* _startup_discovery: a round of its for loop has returned
StartupRound(n) ==
    /\ discovery_loop[n].pc = "startup_round"
    /\ discovery_loop[n].timer = 0
    /\ discovery_loop' = [discovery_loop EXCEPT ![n] =
          IF @.attempt < dm_max_retries
          THEN [@ EXCEPT !.pc = "startup_retry", !.timer = retry_delay]
          ELSE [@ EXCEPT !.pc = "startup_wait",
                         !.timer = startup_discovery_timeout
                                     - dm_max_retries * retry_delay]]
    /\ PhaseFrame

\* _startup_discovery: time.sleep(self.retry_delay) is over, the next round
StartupRetry(n) ==
    /\ discovery_loop[n].pc = "startup_retry"
    /\ discovery_loop[n].timer = 0
    /\ discovery_loop' = [discovery_loop EXCEPT ![n].pc = "startup_round",
                                                ![n].attempt = @ + 1,
                                                ![n].timer = dm_probe_timeout]
    /\ PhaseFrame

\* _startup_discovery: the wait for late responses is over; discovery is
\* complete, the phase is RUNNING, the startup_complete callback is called
StartupComplete(n) ==
    /\ discovery_loop[n].pc = "startup_wait"
    /\ discovery_loop[n].timer = 0
    /\ discovery_loop' = [discovery_loop EXCEPT ![n].discovery_complete = TRUE,
                                                ![n].discovery_phase = "running",
                                                ![n].startup_complete = @ + 1,
                                                ![n].pc = "settle",
                                                ![n].timer = settle_delay]
    /\ PhaseFrame

\* _startup_discovery: time.sleep(3) is over, trigger_election(); back in the
\* loop, time.sleep(10)
StartupElection(n) ==
    /\ discovery_loop[n].pc = "settle"
    /\ discovery_loop[n].timer = 0
    /\ discovery_loop' = [discovery_loop EXCEPT ![n].elections = @ + 1,
                                                ![n].last = "startup",
                                                ![n].pc = "loop",
                                                ![n].timer = discovery_loop_sleep]
    /\ PhaseFrame

\* _maintenance_discovery: its round has returned; time.sleep(10)
MaintenanceRound(n) ==
    /\ discovery_loop[n].pc = "maintenance_round"
    /\ discovery_loop[n].timer = 0
    /\ discovery_loop' = [discovery_loop EXCEPT ![n].pc = "loop",
                                                ![n].last = "maintenance",
                                                ![n].timer = discovery_loop_sleep]
    /\ PhaseFrame

\* _joining_discovery: a round of its for loop has returned, having
\* discovered a server or not; after the loop the phase is RUNNING and the
\* joining_complete callback is called
JoiningRound(n, discovered) ==
    /\ discovery_loop[n].pc = "joining_round"
    /\ discovery_loop[n].timer = 0
    /\ discovery_loop' = [discovery_loop EXCEPT ![n] =
          IF ~discovered /\ @.attempt < dm_max_retries
          THEN [@ EXCEPT !.pc = "joining_retry", !.timer = retry_delay]
          ELSE [@ EXCEPT !.discovery_phase = "running",
                         !.joining_complete = @ + 1, !.last = "joining",
                         !.pc = "loop", !.timer = discovery_loop_sleep]]
    /\ PhaseFrame

\* _joining_discovery: time.sleep(self.retry_delay) is over, the next round
JoiningRetry(n) ==
    /\ discovery_loop[n].pc = "joining_retry"
    /\ discovery_loop[n].timer = 0
    /\ discovery_loop' = [discovery_loop EXCEPT ![n].pc = "joining_round",
                                                ![n].attempt = @ + 1,
                                                ![n].timer = dm_probe_timeout]
    /\ PhaseFrame

\* trigger_joining_discovery(), called by another thread
TriggerJoiningDiscovery(n) ==
    /\ discovery_loop[n].joins < MaxJoins
    /\ discovery_loop' = [discovery_loop EXCEPT ![n].joins = @ + 1,
          ![n].discovery_phase =
              IF FromRunning(@) THEN "joining" ELSE @]
    /\ PhaseFrame

\* a second passes for the discovery thread
TickPhase ==
    /\ \E n \in Nodes : discovery_loop[n].pc # "off"
    /\ \A n \in Nodes : discovery_loop[n].pc # "off" => discovery_loop[n].timer > 0
    /\ discovery_loop' = [n \in Nodes |->
          IF discovery_loop[n].pc = "off" THEN discovery_loop[n]
          ELSE [discovery_loop[n] EXCEPT !.timer = @ - 1]]
    /\ PhaseFrame

(***************************************************************************)
(* The timeout loop statement by statement: its pass over the snapshot of  *)
(* the pending dict, one message at a time, beside the threads that send   *)
(* and that handle acknowledgments.  current_time is read once, before the *)
(* loop, so the ages of the pass are those of the snapshot.                *)
(***************************************************************************)
\* list(self.pending_messages.items()): the pairs in insertion order, each
\* holding the message object itself
Items(pend) ==
    LET ids == InsertionOrder(DOMAIN pend)
    IN  [i \in 1..Len(ids) |-> [msg_id |-> ids[i], message |-> pend[ids[i]]]]

\* the timeout thread after its first for loop
ScanDone(timed_out) ==
    IF timed_out = <<>>
    THEN [pc |-> "sleep", timer |-> timeout_loop_sleep, timed_out |-> <<>>]
    ELSE [pc |-> "remove", timer |-> 0, timed_out |-> timed_out]

\* _message_timeout_loop: current_time = time.time(), timed_out = [] and the
\* list() of the pending items that the for loop will go over
TimeoutSnapshot(n) ==
    /\ running[n]
    /\ timeout_loop[n].pc = "sleep"
    /\ timeout_loop[n].timer = 0
    /\ snapshot' = [snapshot EXCEPT ![n] = Items(pending_messages[n])]
    /\ timeout_loop' = [timeout_loop EXCEPT ![n] =
          IF pending_messages[n] = <<>> THEN ScanDone(<<>>)
          ELSE [pc |-> "scan", timer |-> 0, timed_out |-> <<>>]]
    /\ UNCHANGED <<pending_messages, received_messages, sequence_counter, bus,
                   upcalls, handled>>
    /\ UNCHANGED <<commonVars, fdVars, pdVars>>
    /\ UNCHANGED <<leVars, srvVars, members, view_last, send_threads, stamps, receiver_locals, phaseVars>>

\* _message_timeout_loop, the body of the first for loop for one item of the
\* list: the retry changes the message object, in the dict or not
TimeoutVisit(n) ==
    /\ timeout_loop[n].pc = "scan"
    /\ LET id == Head(snapshot[n]).msg_id
           message == Head(snapshot[n]).message
           rest == Tail(snapshot[n])
           retried == [message EXCEPT !.retry_count = @ + 1,
                                      !.timestamp.reading = @ + 1,
                                      !.age = 0]
           failed == TimedOut(message) /\ ~CanRetry(message)
           timed_out == IF failed THEN Append(timeout_loop[n].timed_out, id)
                        ELSE timeout_loop[n].timed_out
       IN  /\ snapshot' = [snapshot EXCEPT ![n] = rest]
           /\ IF TimedOut(message) /\ CanRetry(message)
              THEN /\ pending_messages' =
                        IF id \in DOMAIN pending_messages[n]
                        THEN [pending_messages EXCEPT ![n][id] = retried]
                        ELSE pending_messages
                   /\ bus' = bus \cup {Envelope(id, retried)}
                   /\ UNCHANGED fault_stats
              ELSE /\ fault_stats' = [fault_stats EXCEPT ![n].omission =
                                        IF failed THEN @ + 1 ELSE @]
                   /\ UNCHANGED <<pending_messages, bus>>
           /\ timeout_loop' = [timeout_loop EXCEPT ![n] =
                 IF rest = <<>> THEN ScanDone(timed_out)
                 ELSE [pc |-> "scan", timer |-> 0, timed_out |-> timed_out]]
    /\ UNCHANGED <<received_messages, sequence_counter, upcalls, handled>>
    /\ UNCHANGED <<running, ft_last, fdVars, pdVars>>
    /\ UNCHANGED <<leVars, srvVars, members, view_last, send_threads, stamps, receiver_locals, phaseVars>>

\* the messages that the callers of node n have constructed so far
Constructed(n) ==
    Len(stamps[n]) + Cardinality({t \in Callers : send_threads[n][t].pc # "idle"})

\* send_reliable_message, up to the read of `self.sequence_counter += 1`: the
\* message is constructed and the caller has the counter's value
SendCall(n, t, msg_type, payload) ==
    /\ send_threads[n][t].pc = "idle"
    /\ Constructed(n) < MaxSend
    /\ LET id == <<n, Constructed(n) + 1>>
       IN  send_threads' = [send_threads EXCEPT ![n][t] =
              [pc |-> "add", counter |-> sequence_counter[n], msg_id |-> id,
               message |-> NewReliableMessage(n, msg_type, payload, id)]]
    /\ UNCHANGED <<snapshot, stamps, members, view_last, receiver_locals, phaseVars>>
    /\ UNCHANGED <<ftVars, leVars, srvVars>>

\* _get_next_sequence, the write of `self.sequence_counter += 1`
SendStore(n, t) ==
    /\ send_threads[n][t].pc = "add"
    /\ sequence_counter' = [sequence_counter EXCEPT ![n] = send_threads[n][t].counter + 1]
    /\ send_threads' = [send_threads EXCEPT ![n][t].pc = "return"]
    /\ UNCHANGED <<pending_messages, received_messages, bus, timeout_loop, upcalls,
                   handled>>
    /\ UNCHANGED <<commonVars, fdVars, pdVars>>
    /\ UNCHANGED <<leVars, srvVars, members, view_last, snapshot, stamps, receiver_locals, phaseVars>>

\* `return self.sequence_counter` and the rest of send_reliable_message: the
\* message is stamped, put in the pending dict and transmitted
SendStamp(n, t) ==
    /\ send_threads[n][t].pc = "return"
    /\ LET seq == sequence_counter[n]
           id == send_threads[n][t].msg_id
           message == [send_threads[n][t].message EXCEPT !.sequence_num = seq]
       IN  /\ stamps' = [stamps EXCEPT ![n] = Append(@, seq)]
           /\ pending_messages' = [pending_messages EXCEPT ![n] = DictPut(@, id, message)]
           /\ bus' = bus \cup {Envelope(id, message)}
    /\ send_threads' = [send_threads EXCEPT ![n][t] = NotSending]
    /\ UNCHANGED <<received_messages, sequence_counter, timeout_loop, upcalls, handled>>
    /\ UNCHANGED <<commonVars, fdVars, pdVars>>
    /\ UNCHANGED <<leVars, srvVars, members, view_last, snapshot, receiver_locals, phaseVars>>

\* a second passes for reliable messaging, no pass of the timeout loop being
\* under way
TickScan ==
    /\ \A n \in Nodes : timeout_loop[n].pc # "scan"
    /\ TickRM

(***************************************************************************)
(* Specifications                                                          *)
(***************************************************************************)
Init == InitFT /\ InitLE /\ InitSrv /\ InitAux

\* reliable messaging between node 1, started and sending, and its peer
NextRM ==
    \/ FTStart(1)
    \/ SendReliableMessage(1, "chat", "hello")
    \/ \E n \in Nodes, d \in {e \in bus : e.type \in {"ACK", "RELIABLE_MSG"}} :
          HandleMessage(n, d)
    \/ \E n \in Nodes : TimeoutScan(n)
    \/ \E n \in Nodes : TimeoutRemove(n)
    \/ TickRM

SpecRM == Init /\ [][NextRM]_vars

\* reliable messaging with the timeout loop's pass taken one message at a time
NextScan ==
    \/ FTStart(1)
    \/ SendReliableMessage(1, "chat", "hello")
    \/ \E n \in Nodes, d \in {e \in bus : e.type \in {"ACK", "RELIABLE_MSG"}} :
          HandleMessage(n, d)
    \/ \E n \in Nodes : TimeoutSnapshot(n)
    \/ \E n \in Nodes : TimeoutVisit(n)
    \/ \E n \in Nodes : TimeoutRemove(n)
    \/ TickScan

SpecScan == Init /\ [][NextScan]_vars

\* the callers of node 1's send_reliable_message, statement by statement, and
\* the nodes handling what is sent
NextSend ==
    \/ \E t \in Callers, p \in Payloads : SendCall(1, t, "chat", p)
    \/ \E t \in Callers : SendStore(1, t)
    \/ \E t \in Callers : SendStamp(1, t)
    \/ \E n \in Nodes, d \in {e \in bus : e.type \in {"ACK", "RELIABLE_MSG"}} :
          HandleMessage(n, d)

SpecSend == Init /\ [][NextSend]_vars

\* the receive path alone: managers that are constructed and handed datagrams
NextRX ==
    \/ \E p \in Payloads : SendReliableMessage(1, "chat", p)
    \/ \E n \in Nodes, d \in Deliverable : HandleMessage(n, d)

SpecRX == Init /\ [][NextRX]_vars

\* a datagram that is no JSON text
NotJson == [type |-> "not json", raw |-> "\\xff\\xfe"]

\* an envelope whose message part has lost its checksum field
Truncated(d) ==
    [d EXCEPT !.message = [k \in DOMAIN d.message \ {"checksum"} |-> d.message[k]]]

\* the datagrams the claim calls undecodable
Undecodable == {NotJson} \cup {Truncated(d) : d \in {e \in bus : e.type = "RELIABLE_MSG"}}

\* the receive path handed the envelopes that were sent and undecodable ones
NextBad ==
    \/ \E p \in Payloads : SendReliableMessage(1, "chat", p)
    \/ \E n \in Nodes, d \in bus \cup Undecodable : HandleMessage(n, d)

SpecBad == Init /\ [][NextBad]_vars

\* failure detection at node 1, its peers' heartbeats arriving or not
NextFD ==
    \/ FTStart(1)
    \/ \E p \in Peers : HandleMessage(1, HeartbeatDatagram(p))
    \/ \E p \in Peers : HandleMessage(1, LeaderHeartbeatDatagram(p))
    \/ FailureScanBegin(1)
    \/ FailureScanStep(1)
    \/ LeaderMonitor(1)
    \/ HeartbeatLoop(1)
    \/ TickFD

SpecFD == Init /\ [][NextFD]_vars

\* partition detection at node 1
NextPD ==
    \/ FTStart(1)
    \/ \E p \in Peers : AddKnownNode(1, p)
    \/ \E responses \in [known_nodes[1] -> UNION {ProbeResponses(1, p) : p \in Peers}] :
          PartitionLoop(1, responses)
    \/ TickPD

SpecPD == Init /\ [][NextPD]_vars

\* the elections of the two-server group, with joins announced to the servers
\* and a crash
NextLE ==
    \/ \E n \in Pair : LEStart(n)
    \/ \E n \in Pair : \E id \in Pair \ {n} : HandleNewServerJoin(n, id)
    \/ \E n \in Pair, t \in 1..MaxThreads : ElectionCheck(n, t)
    \/ \E n \in Pair, t \in 1..MaxThreads : ElectionBegin(n, t)
    \/ \E n \in Pair, t \in 1..MaxThreads : ElectionWake(n, t)
    \/ \E n \in Pair, t \in 1..MaxThreads : BecomeLeader(n, t)
    \/ \E n \in Pair, t \in 1..MaxThreads : AnnounceLeader(n, t)
    \/ \E n \in Pair, t \in 1..MaxThreads : ElectionFinish(n, t)
    \/ \E n \in Pair : HandleElectionMessage(n)
    \/ \E n \in Pair : HeartbeatMonitor(n)
    \/ \E n \in Pair : Crash(n)
    \/ TickLE

SpecLE == Init /\ [][NextLE]_vars

\* a step of one of the election threads of a server
ElectionStep(n, t) ==
    \/ ElectionCheck(n, t)
    \/ ElectionBegin(n, t)
    \/ ElectionWake(n, t)
    \/ BecomeLeader(n, t)
    \/ AnnounceLeader(n, t)
    \/ ElectionFinish(n, t)

\* a step of one of the threads of a server
ServerStep(n) ==
    \/ HandleElectionMessage(n)
    \/ HeartbeatMonitor(n)
    \/ \E t \in 1..MaxThreads : ElectionStep(n, t)

\* the elections with the threads scheduled and time passing: a server with a
\* thread that can run runs one (a second passes only once every thread that
\* can run has run), and time passes
FairSpecLE ==
    /\ SpecLE
    /\ WF_vars(TickLE)
    /\ \A n \in Pair : WF_vars(ServerStep(n))

\* start() within the second of the server's construction
StartPrompt(n) == last_heartbeat_time[n] = 0 /\ LEStart(n)

\* the elections of the two-server group whose servers start as they are
\* constructed, with joins announced to them and a crash
NextLEPrompt ==
    \/ \E n \in Pair : StartPrompt(n)
    \/ \E n \in Pair : \E id \in Pair \ {n} : HandleNewServerJoin(n, id)
    \/ \E n \in Pair, t \in 1..MaxThreads : ElectionCheck(n, t)
    \/ \E n \in Pair, t \in 1..MaxThreads : ElectionBegin(n, t)
    \/ \E n \in Pair, t \in 1..MaxThreads : ElectionWake(n, t)
    \/ \E n \in Pair, t \in 1..MaxThreads : BecomeLeader(n, t)
    \/ \E n \in Pair, t \in 1..MaxThreads : AnnounceLeader(n, t)
    \/ \E n \in Pair, t \in 1..MaxThreads : ElectionFinish(n, t)
    \/ \E n \in Pair : HandleElectionMessage(n)
    \/ \E n \in Pair : HeartbeatMonitor(n)
    \/ \E n \in Pair : Crash(n)
    \/ TickLE

SpecLEPrompt == Init /\ [][NextLEPrompt]_vars

\* these elections with the threads scheduled and time passing
FairSpecLEPrompt ==
    /\ SpecLEPrompt
    /\ WF_vars(TickLE)
    /\ \A n \in Pair : WF_vars(ServerStep(n))

\* no server has a second _start_election thread alive
OneElectionThread ==
    \A n \in Servers : \A t \in 2..MaxThreads : election_threads[n][t].pc = "none"

\* start() of a server told of every other server, within the second of its
\* construction and once the threads of the servers started before it are at
\* rest
StartInformed(n) ==
    /\ last_heartbeat_time[n] = 0
    /\ group_view[n] = Servers \ {n}
    /\ \A m \in Servers :
          /\ receiver_socket[m] = <<>>
          /\ \A t \in 1..MaxThreads : Asleep(election_threads[m][t])
          /\ NotDue(heartbeat_thread[m])
    /\ LEStart(n)

\* handle_new_server_join on a server that has not started yet
JoinBeforeStart(n, id) == ~le_running[n] /\ HandleNewServerJoin(n, id)

\* _election_monitor and _heartbeat_monitor where trigger_election does not
\* fall between the start of an election thread and its setting the flag
HandleElectionMessageAlone(n) == HandleElectionMessage(n) /\ OneElectionThread'

HeartbeatMonitorAlone(n) == HeartbeatMonitor(n) /\ OneElectionThread'

\* the elections of three servers that start one after the other within a
\* second, each knowing the others
NextLE3 ==
    \/ \E n \in Servers : StartInformed(n)
    \/ \E n \in Servers : \E id \in Servers \ {n} : JoinBeforeStart(n, id)
    \/ \E n \in Servers : ElectionCheck(n, 1)
    \/ \E n \in Servers : ElectionBegin(n, 1)
    \/ \E n \in Servers : ElectionWake(n, 1)
    \/ \E n \in Servers : BecomeLeader(n, 1)
    \/ \E n \in Servers : AnnounceLeader(n, 1)
    \/ \E n \in Servers : ElectionFinish(n, 1)
    \/ \E n \in Servers : HandleElectionMessageAlone(n)
    \/ \E n \in Servers : HeartbeatMonitorAlone(n)
    \/ TickLE

SpecLE3 == Init /\ [][NextLE3]_vars

\* a step of one of the threads of a server with one election thread
ServerStepAlone(n) ==
    \/ HandleElectionMessageAlone(n)
    \/ HeartbeatMonitorAlone(n)
    \/ ElectionStep(n, 1)

\* the three servers' threads scheduled and time passing
FairSpecLE3 ==
    /\ SpecLE3
    /\ WF_vars(TickLE)
    /\ \A n \in Servers : WF_vars(ServerStepAlone(n))

\* reliable messaging with its timeout thread scheduled: a thread whose sleep is
\* over runs its pass, a pass under way goes on, and time passes
FairSpecRM ==
    /\ SpecRM
    /\ WF_vars(TickRM)
    /\ \A n \in Nodes : WF_vars(TimeoutScan(n)) /\ WF_vars(TimeoutRemove(n))

\* every probe of a round ends with the socket timeout
Unanswered(n) == [k \in known_nodes[n] |-> None]

\* failure detection and partition detection of node 1, on one clock; no
\* probe is answered
TickFT == FDSecond /\ PDSecond /\ UNCHANGED <<leVars, srvVars, auxVars>>

NextFT ==
    \/ FTStart(1)
    \/ \E p \in Peers : HandleMessage(1, HeartbeatDatagram(p))
    \/ FailureScanBegin(1)
    \/ FailureScanStep(1)
    \/ LeaderMonitor(1)
    \/ HeartbeatLoop(1)
    \/ PartitionLoop(1, Unanswered(1))
    \/ TickFT

SpecFT == Init /\ [][NextFT]_vars

\* a second passes for the election and for the failure detector of a server
TickLH == LESecond /\ FDSecond /\ UNCHANGED <<pdVars, srvVars, auxVars>>

\* server 1, alone in its group view, elects itself while the heartbeat loop
\* and the detection loops of its fault tolerance manager run; no datagram of
\* another server arrives, so its round has nobody to wait for and its
\* failure scan nothing to go over
NextLH ==
    \/ LEStart(1)
    \/ \E t \in 1..MaxThreads : ElectionCheck(1, t)
    \/ \E t \in 1..MaxThreads : ElectionBegin(1, t)
    \/ \E t \in 1..MaxThreads : BecomeLeader(1, t)
    \/ \E t \in 1..MaxThreads : AnnounceLeader(1, t)
    \/ \E t \in 1..MaxThreads : ElectionFinish(1, t)
    \/ HeartbeatMonitor(1)
    \/ FTStart(1)
    \/ HeartbeatLoop(1)
    \/ FailureScanBegin(1)
    \/ LeaderMonitor(1)
    \/ TickLH

SpecLH == Init /\ [][NextLH]_vars

\* membership at a server process: its main thread, its receiver reading the
\* announcements of the peer server and the heartbeats of the peer's manager,
\* its views and their cleanup, the failure detection loop of its manager
NextSrv ==
    \/ SrvStart(1)
    \/ SrvFTStart(1)
    \/ SrvReceiverStart(1)
    \/ DiscoveryStart(1)
    \/ ShowSystemComponents(1)
    \/ ReceiveText(1, ServerAliveMessage(2))
    \/ ReceiveJson(1, HeartbeatDatagram(2))
    \/ \E th \in Threads : GVEnter(1, th)
    \/ CleanupWake(1)
    \/ CleanupDeadServers(1)
    \/ DetectorBegin(1)
    \/ DetectorStep(1)
    \/ TickSrv

SpecSrv == Init /\ [][NextSrv]_vars

\* the HEARTBEAT the node's own _heartbeat_loop sent heartbeat_interval
\* seconds after the last one the node has read is not waiting to be read
OwnHeartbeatRead(n) ==
    \A i \in DOMAIN node_last_seen[n] :
        node_last_seen[n][i].id = n => node_last_seen[n][i].age < heartbeat_interval

\* a second passes for a server that loses none of its own heartbeats: its
\* receiver, while it is at recvfrom, reads each of them as it comes
TickOwn ==
    /\ \A n \in Nodes : AtRecv(n) => OwnHeartbeatRead(n)
    /\ TickSrv

\* server 1 as in NextSrv, its receiver, a member of the group its own
\* _heartbeat_loop sends to, reading HEARTBEATs of server 1 itself as well
NextOwn ==
    \/ SrvStart(1)
    \/ SrvFTStart(1)
    \/ SrvReceiverStart(1)
    \/ DiscoveryStart(1)
    \/ ShowSystemComponents(1)
    \/ ReceiveText(1, ServerAliveMessage(2))
    \/ \E s \in Nodes : ReceiveJson(1, HeartbeatDatagram(s))
    \/ \E th \in Threads : GVEnter(1, th)
    \/ CleanupWake(1)
    \/ CleanupDeadServers(1)
    \/ DetectorBegin(1)
    \/ DetectorStep(1)
    \/ TickOwn

SpecOwn == Init /\ [][NextOwn]_vars

\* a server process and its clients: the receiver reading what a client
\* sends and the probes of the peer's partition detector
NextChat ==
    \/ SrvStart(1)
    \/ SrvFTStart(1)
    \/ SrvReceiverStart(1)
    \/ DiscoveryStart(1)
    \/ ShowSystemComponents(1)
    \/ \E parts \in ClientMessages : ReceiveText(1, parts)
    \/ \E d \in {ProbeDatagram(2, 1), ProbeDatagram(2, 2)} : ReceiveJson(1, d)
    \/ \E th \in Threads : GVEnter(1, th)
    \/ CleanupWake(1)
    \/ CleanupDeadServers(1)
    \/ DetectorBegin(1)
    \/ TickSrv

SpecChat == Init /\ [][NextChat]_vars

\* the threads of the server process are scheduled and its clock runs
FairSpecChat ==
    /\ SpecChat
    /\ WF_vars(TickSrv)
    /\ \A th \in Threads : WF_vars(GVEnter(1, th))
    /\ WF_vars(SrvFTStart(1) \/ SrvReceiverStart(1) \/ DiscoveryStart(1)
               \/ ShowSystemComponents(1))
    /\ WF_vars(CleanupWake(1) \/ CleanupDeadServers(1) \/ DetectorBegin(1))

\* a server process from its start to showSystemcomponents, and the
\* discovery texts: what its receiver reads from the multicast group and what
\* its discovery thread reads on the probe socket, sent by the server itself
\* or by server 2.  The loops that first wake later than that are left out.
ReceiverTexts ==
    UNION {OwnAnnouncements(s) \cup {ServerProbeMessage(s)} : s \in Nodes}

DiscoveryTexts == UNION {OwnAnnouncements(s) \cup {ServerResponse(s)} : s \in Nodes}

NextDisc ==
    \/ SrvStart(1)
    \/ SrvFTStart(1)
    \/ SrvReceiverStart(1)
    \/ DiscoveryStart(1)
    \/ ShowSystemComponents(1)
    \/ \E parts \in ReceiverTexts : ReceiveText(1, parts)
    \/ \E parts \in DiscoveryTexts : DiscoveryProcess(1, parts)
    \/ DiscoveryKnown(1)
    \/ \E th \in Threads : GVEnter(1, th)
    \/ DetectorBegin(1)
    \/ main_thread[1].pc = "sleep" /\ TickSrv

SpecDisc == Init /\ [][NextDisc]_vars

\* the discovery manager of server 1 and the callers of its
\* trigger_joining_discovery
PhaseStep(n) ==
    \/ PhaseStart(n)
    \/ \E maintain \in BOOLEAN : PhaseDispatch(n, maintain)
    \/ StartupRound(n)
    \/ StartupRetry(n)
    \/ StartupComplete(n)
    \/ StartupElection(n)
    \/ MaintenanceRound(n)
    \/ \E discovered \in BOOLEAN : JoiningRound(n, discovered)
    \/ JoiningRetry(n)

NextPhase ==
    \/ PhaseStep(1)
    \/ TriggerJoiningDiscovery(1)
    \/ TickPhase

SpecPhase == Init /\ [][NextPhase]_vars

\* the discovery thread is scheduled and time passes
FairSpecPhase ==
    /\ SpecPhase
    /\ WF_vars(PhaseStep(1))
    /\ WF_vars(TickPhase)

\* a second passes for a server process and the partition detector of its
\* manager
TickJoin == SrvSecond /\ PDSecond /\ UNCHANGED <<leVars, auxVars>>

\* a server process through and beyond the grace period of its partition
\* detector, which knows no node; its receiver reads the announcements of
\* server 2
NextJoin ==
    \/ SrvStart(1)
    \/ SrvFTStart(1)
    \/ SrvReceiverStart(1)
    \/ DiscoveryStart(1)
    \/ ShowSystemComponents(1)
    \/ ReceiveText(1, ServerAliveMessage(2))
    \/ \E th \in Threads : GVEnter(1, th)
    \/ CleanupWake(1)
    \/ CleanupDeadServers(1)
    \/ DetectorBegin(1)
    \/ PartitionLoop(1, Unanswered(1))
    \/ TickJoin

SpecJoin == Init /\ [][NextJoin]_vars

\* the GroupView of LeaderElection.py alone: members come and go, and the
\* higher and the lower nodes of an identifier are asked for
NextView ==
    \/ \E node_id \in NodeIdentifiers : AddMember(node_id)
    \/ \E node_id \in NodeIdentifiers : RemoveMember(node_id)
    \/ \E node_id \in NodeIdentifiers : GetNodes(node_id)

SpecView == Init /\ [][NextView]_vars

\* a GroupView alone: started, listened to, called by a thread, cleaned up
NextGV ==
    \/ GVStart(1)
    \/ \E l \in Listeners : AddEventCallback(1, l)
    \/ \E c \in ApiCalls : GVUse(1, c)
    \/ CleanupWake(1)
    \/ \E th \in {"main", "cleanup"} : GVEnter(1, th)
    \/ TickGV

SpecGV == Init /\ [][NextGV]_vars

(***************************************************************************)
(* Properties of reliable messaging                                        *)
(***************************************************************************)
\* the last handle_message call was on a RELIABLE_MSG envelope
LastReliable == ft_last.dgram.type = "RELIABLE_MSG"

\* the checksum field of an envelope does not match its content
Mismatch(d) == d.message.checksum # CalculateChecksum(FromDict(d.message))

RejectedAsCorrupt ==
    /\ ft_last.result = None
    /\ ft_last.byzantine = 1
    /\ ft_last.acks = 0
    /\ ft_last.dgram.message.msg_id \notin received_messages[ft_last.node]

\* C5 as stated: an envelope whose checksum does not match its content is
\* rejected (no upcall, BYZANTINE + 1, no ACK, msg_id not delivered) whatever
\* the receiver has processed before.
C5_CorruptionAlways ==
    (LastReliable /\ Mismatch(ft_last.dgram)) => RejectedAsCorrupt

\* C5, amended: an envelope whose checksum does not match its content and
\* whose msg_id is not yet in the delivered set is rejected: no upcall,
\* BYZANTINE + 1, no ACK, msg_id not added to the delivered set.
C5_CorruptionNotDelivered ==
    (LastReliable /\ Mismatch(ft_last.dgram) /\ ~ft_last.dup) => RejectedAsCorrupt

\* C5 witness: a receiver that has delivered one message rejects an altered
\* envelope of another
C5_Witness ==
    /\ LastReliable
    /\ Mismatch(ft_last.dgram)
    /\ ~ft_last.dup
    /\ received_messages[ft_last.node] # {}
    /\ fault_stats[ft_last.node].byzantine = 1

\* C6: every envelope on the bus, first transmission or retransmission,
\* carries the checksum of its own fields, and an envelope processed as it
\* was sent, not yet delivered, is delivered.
C6_TransmittedChecksum ==
    /\ \A d \in bus : d.type = "RELIABLE_MSG" => ~Mismatch(d)
    /\ (LastReliable /\ ft_last.dgram \in bus /\ ~ft_last.dup) =>
          ft_last.result # None

\* C7: a message pending at a running node is eventually not pending.
C7_PendingEventuallyRemoved ==
    \A id \in MsgIds :
        (running[1] /\ id \in DOMAIN pending_messages[1])
            ~> (id \notin DOMAIN pending_messages[1])

(***************************************************************************)
(* Properties of partition detection                                       *)
(***************************************************************************)
\* C3: while less than startup_grace_period seconds have passed since
\* startup_time, in_partition is false and every probe_nodes call so far has
\* returned True (connected).
C3_NoPartitionDuringGrace ==
    \A n \in Nodes :
        startup_time[n] < startup_grace_period =>
            /\ ~in_partition[n]
            /\ pd_last[n].called => pd_last[n].returned

\* C3 witness: a probe round run inside the grace period by a node that knows
\* two peers
C3_Witness ==
    /\ startup_time[1] < startup_grace_period
    /\ pd_last[1].called
    /\ pd_last[1].known = 2
    /\ pd_last[1].returned
    /\ ~in_partition[1]

\* ceil(k / 2)
HalfRoundedUp(k) == (k + 1) \div 2

\* C8: after a probe round run once the grace period is over, in_partition is
\* true exactly when reachable < ceil(known / 2) and known >= 2.
C8_PartitionRule ==
    \A n \in Nodes :
        (pd_last[n].called /\ ~pd_last[n].grace) =>
            (in_partition[n] <=>
                /\ pd_last[n].reachable < HalfRoundedUp(pd_last[n].known)
                /\ pd_last[n].known >= 2)

(***************************************************************************)
(* Properties of failure detection                                         *)
(***************************************************************************)
\* the peer's last heartbeat is more than failure_timeout old
Silent(n, id) ==
    id \in SeenIds(node_last_seen[n]) /\ Expired(SilenceOf(node_last_seen[n], id))

\* the failure detection loop has just ended a pass
ScanEnded(n) ==
    failure_loop[n].pc = "sleep" /\ failure_loop[n].timer = failure_loop_sleep

\* C10: in a peer's silence (more than failure_timeout since its last
\* heartbeat) the CRASH callback is called for it at most once, and once a
\* pass of the detector has ended in that silence it has been called exactly
\* once: each silence, the first and each one after a heartbeat, is reported.
C10_CrashOncePerEpisode ==
    \A id \in Peers :
        /\ on_crash[1][id].silent <= 1
        /\ (ScanEnded(1) /\ Silent(1, id)) => on_crash[1][id].silent = 1

(***************************************************************************)
(* Properties of leader election                                           *)
(***************************************************************************)
\* every server of the group is running and has the whole group, and nothing
\* else, in its group view
StableView(G) ==
    \A n \in G : le_running[n] /\ ~crashed[n] /\ group_view[n] = G

\* no election is under way and no datagram is waiting
Quiesced(G) ==
    \A n \in G :
        /\ ~election_in_progress[n]
        /\ \A t \in 1..MaxThreads : election_threads[n][t].pc = "none"
        /\ receiver_socket[n] = <<>>

\* exactly server l of the group is in state LEADER and every server's
\* current_leader is l
AgreedOn(G, l) ==
    /\ \A n \in G : (state[n] = "leader") <=> (n = l)
    /\ \A n \in G : current_leader[n] = Some(l)

\* the server of the group with the highest priority
MaxServer(G) == CHOOSE m \in G : \A n \in G : n <= m

\* C1: under a stable view of the two-server group, once the elections have
\* quiesced with the servers agreeing on a leader, that leader is the server
\* with the highest id.
C1_LeaderIsMax ==
    \A l \in Pair :
        (StableView(Pair) /\ Quiesced(Pair) /\ AgreedOn(Pair, l)) => l = MaxServer(Pair)

\* the servers of the group agree on a leader
Agreed(G) == \E l \in G : AgreedOn(G, l)

NoCrash == \A n \in Servers : ~crashed[n]

\* once the two servers agree on server 1 under a stable view with the
\* elections quiesced, they agree on it for as long as no server crashes
LowerLeaderStays ==
    []((StableView(Pair) /\ Quiesced(Pair) /\ AgreedOn(Pair, 1))
          => [](AgreedOn(Pair, 1) \/ ~NoCrash))

\* C2: if no server crashes and every server has started with a stable view,
\* the servers eventually agree on a leader (exactly one LEADER, named by every
\* current_leader) and go on agreeing forever.
C2_LeaderAgreement ==
    ([]NoCrash /\ <>StableView(Servers)) => <>[]Agreed(Servers)

\* C2 for the two-server group
PairAgreement ==
    ([]NoCrash /\ <>StableView(Pair)) => <>[]Agreed(Pair)

\* server 1 is in state LEADER and reports itself as leader
ReportsItself == state[1] = "leader" /\ current_leader[1] = Some(1)

\* C9: in the two-server group, if server 2 crashes while it is LEADER and
\* server 1 is a FOLLOWER naming it, server 1, unless it crashes too,
\* eventually finds the leader silent for longer than heartbeat_timeout, runs
\* an election and from some point on reports itself as leader.
C9_LeaderCrashRecovery ==
    (1 \in followers_at_crash) ~> (crashed[1] \/ []ReportsItself)

\* C9 witness: server 2 crashed as the leader server 1 followed, and server 1
\* has elected itself after the silence
C9_Witness ==
    /\ crashed[2]
    /\ 1 \in followers_at_crash
    /\ group_view[1] = Pair
    /\ ReportsItself
    /\ ~election_in_progress[1]

\* the _start_election executions of a server that are between setting and
\* clearing election_in_progress
ActiveElections(n) ==
    {t \in 1..MaxThreads :
        election_threads[n][t].pc \in {"sleep", "wait", "become", "announce", "finish"}}

\* C11: at no server are two executions of _start_election between setting and
\* clearing election_in_progress at the same time.
C11_OneElectionPerNode ==
    \A n \in Servers : Cardinality(ActiveElections(n)) <= 1

\* C12: at every server current_leader is unset or a member of the server's
\* group view.
C12_LeaderInView ==
    \A n \in Servers :
        current_leader[n] # None => current_leader[n][1] \in group_view[n]

(***************************************************************************)
(* Properties of the server process and its GroupView                      *)
(***************************************************************************)
\* C14: every join, leave and timeout notification is dispatched with
\* GroupView.lock released, and no thread is left waiting inside a listener
\* that called get_participant.
C14_NotifyOutsideLock ==
    \A n \in Nodes :
        /\ \A i \in DOMAIN srv_log[n].notified : ~srv_log[n].notified[i].locked
        /\ \A th \in Threads : gv_call[n][th] # Deadlocked("get_participant")

\* C16: while less than startup_grace_period seconds have passed since the
\* node's startup_time, no crash decision has been taken: failed_nodes is
\* empty, CRASH is 0 and the CRASH callback has not been called.
C16_GraceSuppression ==
    \A n \in Nodes :
        startup_time[n] < startup_grace_period =>
            /\ failed_nodes[n] = {}
            /\ fault_stats[n].crash = 0
            /\ \A id \in Peers : on_crash[n][id] = [silent |-> 0, early |-> 0]

\* C17: a probe round that takes the node out of partition (in_partition
\* was true before the round and is false after it) has triggered an election.
C17_HealingTriggersElection ==
    \A n \in Nodes : pd_last[n].healed => pd_last[n].elections >= 1

\* the peers in the views of a server process: the legacy group_view_servers
\* and the unified GroupView
LegacySize(n) == Cardinality(group_view_servers[n])

\* C13: in a step in which the node reads no datagram, taken less than
\* min(server_timeout, client_timeout) seconds after the last datagram it read
\* (or after its start), neither view of the node loses a peer.
C13_MonotoneUnderSilence ==
    [][\A n \in Nodes :
          (/\ srv_log'[n].received = srv_log[n].received
           /\ srv_log[n].quiet < Min(server_timeout, client_timeout))
          => /\ Cardinality(group_view_servers'[n]) >= LegacySize(n)
             /\ Len(participants'[n]) >= Len(participants[n])]_vars

\* the receiver thread has read a status request
StatusRead(n) == srv_log[n].message = Some(Text(StatusMessage))

\* the receiver thread has finished the handler of the datagram it read and
\* sent the reply
ReplySent(n) == AtRecv(n) /\ srv_log[n].reply # None

\* C15: a status request read by the receiver leads to the summary reply
\* being sent, the receiver back at recvfrom and GroupView.lock free.
C15_StatusTerminates ==
    StatusRead(1) ~> (ReplySent(1) /\ gv_lock[1] = "free")

\* the last_seen age of a participant of the view
LastSeenOf(ps, id) == (CHOOSE q \in {ps[i] : i \in DOMAIN ps} : q.id = id).last_seen

\* C19: once the receiver has handled a heartbeat sent by a client that is in
\* the view, the client's last_seen is the time of that heartbeat: it is no
\* older than the datagram.
C19_HeartbeatTouches ==
    \A n \in Nodes, c \in Clients :
        (/\ srv_log[n].message = Some(Text(ClientHeartbeatMessage(c)))
         /\ AtRecv(n)
         /\ c \in GVIds(participants[n])
         /\ srv_log[n].quiet < SERVER_TIMEOUT)
        => LastSeenOf(participants[n], c) <= srv_log[n].quiet

\* what _probe_node's recvfrom and json.loads give on the reply of the probed
\* server: the datagram, or nothing when the reply is not JSON
ProbeRead(reply) ==
    IF reply # None /\ reply[1].json THEN Some(reply[1].body) ELSE None

\* the receiver's last datagram was a PARTITION_PROBE
ProbeReadBy(n) ==
    /\ srv_log[n].message # None
    /\ srv_log[n].message[1].json
    /\ srv_log[n].message[1].body.type = "PARTITION_PROBE"

\* C18: a PARTITION_PROBE handled by its target is answered with the probe
\* reversed, and the reply the prober reads makes _probe_node count the
\* target as reachable; a probe for another target gets no PARTITION_PROBE.
C18_ProbeEcho ==
    \A n \in Nodes :
        ProbeReadBy(n) =>
            LET d == srv_log[n].message[1].body
            IN  IF d.target_id = n
                THEN /\ ft_last.result = Some(ProbeDatagram(n, d.sender_id))
                     /\ ProbeNode(d.sender_id, ProbeRead(srv_log[n].reply))
                ELSE /\ ft_last.result = None
                     /\ ~ProbeNode(d.sender_id, ProbeRead(srv_log[n].reply))

\* the discovery thread of n has just processed a text that names n
DiscoveryReadOwn(n) ==
    /\ discovery_thread'[n].handled = discovery_thread[n].handled + 1
    /\ discovery_thread'[n].message \in
          {Some(Text(t)) : t \in OwnAnnouncements(n) \cup {ServerResponse(n)}}

\* the receiver of n has just read one of the texts
ReceiverRead(n, texts) ==
    /\ srv_log'[n].received = srv_log[n].received + 1
    /\ srv_log'[n].message \in {Some(Text(t)) : t \in texts}

\* C20: a server never has its own id in discovered_servers; when its
\* discovery thread processes its own SERVER_ALIVE or SERVER_RESPONSE, or its
\* receiver reads its own SERVER_ALIVE, discovered_servers, the legacy view
\* and the GroupView stay as they were, no server_discovered callback fires
\* and no GroupView call is begun; and the receiver sends no reply to the
\* server's own SERVER_PROBE
C20_SelfSuppression ==
    [][\A n \in Nodes :
         /\ StrOf(n) \notin discovered_servers'[n]
         /\ DiscoveryReadOwn(n) =>
               /\ discovered_servers'[n] = discovered_servers[n]
               /\ group_view_servers'[n] = group_view_servers[n]
               /\ participants'[n] = participants[n]
               /\ known_nodes'[n] = known_nodes[n]
               /\ gv_call'[n] = gv_call[n]
               /\ discovery_thread'[n].fired = <<>>
         /\ ReceiverRead(n, OwnAnnouncements(n)) =>
               /\ group_view_servers'[n] = group_view_servers[n]
               /\ participants'[n] = participants[n]
               /\ gv_call'[n] = gv_call[n]
         /\ ReceiverRead(n, {ServerProbeMessage(n)}) => srv_log'[n].reply = None]_vars

\* server 1 discovered server 2, then processed its own SERVER_RESPONSE, and
\* its receiver has read its own SERVER_PROBE
C20_Witness ==
    /\ discovered_servers[1] = {"2"}
    /\ discovery_thread[1].message = Some(Text(ServerResponse(1)))
    /\ srv_log[1].message = Some(Text(ServerProbeMessage(1)))

(***************************************************************************)
(* Properties of an election round                                         *)
(***************************************************************************)
\* election thread t of server n comes out of _send_election_messages
RoundDecided(n, t) ==
    /\ election_threads[n][t].pc = "sleep"
    /\ election_threads'[n][t].pc \in {"become", "wait"}

\* an ANSWER of a higher server has reached n since it sent its ELECTION
Answered(n) == \E m \in answers[n] : m > n

\* C21: a server whose election round has waited out its timeout goes on to
\* _become_leader if and only if no ANSWER of a higher server has reached it
\* in the round; with such an ANSWER it waits for the COORDINATOR instead
C21_LeaderIffUnanswered ==
    [][\A n \in Servers, t \in 1..MaxThreads :
         RoundDecided(n, t) =>
            /\ election_threads'[n][t].pc = "become" <=> ~Answered(n)
            /\ election_threads'[n][t].pc = "wait" <=> Answered(n)]_vars

\* _election_monitor of server n takes the ELECTION of server m off its
\* receiver socket and handles it
ElectionRead(n, m) ==
    /\ le_running[n] /\ le_running'[n]
    /\ receiver_socket[n] # <<>>
    /\ Head(receiver_socket[n]) = ElectionMessage(m)
    /\ receiver_socket'[n] = Tail(receiver_socket[n])

\* trigger_election has started a _start_election thread of server n
ThreadStarted(n) ==
    \E t \in 1..MaxThreads :
       /\ election_threads[n][t].pc = "none"
       /\ election_threads'[n][t].pc = "check"
       /\ \A u \in 1..MaxThreads \ {t} : election_threads'[n][u] = election_threads[n][u]

CoordinatorRead(n, m) ==
    /\ le_running[n] /\ le_running'[n]
    /\ receiver_socket[n] # <<>>
    /\ Head(receiver_socket[n]) = CoordinatorMessage(m)
    /\ receiver_socket'[n] = Tail(receiver_socket[n])

\* C23: when a server has handled a COORDINATOR, its current_leader is the
\* announced leader, its state is FOLLOWER and its election_in_progress flag
\* is false
C23_CoordinatorAdopted ==
    [][\A n \in Servers : \A m \in Servers \ {n} :
         CoordinatorRead(n, m) =>
            /\ current_leader'[n] = Some(m)
            /\ state'[n] = "follower"
            /\ ~election_in_progress'[n]]_vars

(***************************************************************************)
(* Properties of the priority order                                        *)
(***************************************************************************)
\* C24: when the higher and the lower nodes of a member n of a view have been
\* computed, the higher nodes are the members of higher priority (process
\* id), the lower nodes those of lower priority, n is in neither set, and
\* every other member is in exactly one of the two
C24_PriorityPartition ==
    (view_last.op = "get_nodes" /\ view_last.node_id[1] \in members) =>
       LET n == view_last.node_id[1]
       IN  /\ view_last.higher = {m \in members : m.process_id > n.process_id}
           /\ view_last.lower = {m \in members : m.process_id < n.process_id}
           /\ n \notin view_last.higher \cup view_last.lower
           /\ \A m \in members \ {n} :
                 (m \in view_last.higher) # (m \in view_last.lower)

(***************************************************************************)
(* Properties of retransmission                                            *)
(***************************************************************************)
\* the RELIABLE_MSG envelopes of message id that have been transmitted; each
\* transmission carries a timestamp of its own
Transmissions(id) == {d \in bus : d.type = "RELIABLE_MSG" /\ d.message.msg_id = id}

\* the timeout loop of node n retransmits its pending message id
Retransmitted(n, id) ==
    /\ id \in DOMAIN pending_messages[n]
    /\ Transmissions(id)' # Transmissions(id)

\* C25: the retry_count of a pending message is never above max_retries; the
\* timeout loop retransmits a message only when more than message_timeout
\* has passed since its last transmission and its retry_count is below
\* max_retries; no message is transmitted more than max_retries + 1 times
C25_BoundedRetransmission ==
    [][\A n \in Nodes :
         /\ \A id \in DOMAIN pending_messages'[n] :
               pending_messages'[n][id].retry_count <= max_retries
         /\ \A id \in DOMAIN pending_messages[n] :
               Retransmitted(n, id) =>
                  /\ pending_messages[n][id].age > message_timeout
                  /\ pending_messages[n][id].retry_count < max_retries
                  /\ pending_messages'[n][id].retry_count =
                        pending_messages[n][id].retry_count + 1
         /\ \A id \in MsgIds : Cardinality(Transmissions(id)') <= max_retries + 1]_vars

\* the first message of node 1 has been transmitted four times, its retries
\* are exhausted and the timeout loop has dropped it
C25_Witness ==
    /\ Cardinality(Transmissions(<<1, 1>>)) = max_retries + 1
    /\ <<1, 1>> \notin DOMAIN pending_messages[1]
    /\ fault_stats[1].omission > 0

\* handle_message of node n handles the ACK of message id
AckRead(n, id) ==
    /\ ft_last' # ft_last
    /\ ft_last'.node = n
    /\ ft_last'.dgram.type = "ACK"
    /\ ft_last'.dgram.msg_id = id

\* the last datagram handled was the ACK of message id, at its sender
AckedLast(id) ==
    /\ ft_last.node = id[1]
    /\ ft_last.dgram.type = "ACK"
    /\ ft_last.dgram.msg_id = id

\* C26: handling the ACK of a pending message removes that entry of the
\* pending map and no other, handling the ACK of a message that is not pending
\* leaves the map as it is, and neither changes the delivered set or a fault
\* counter; once its sender has handled the ACK of a message, the message is
\* not transmitted again
C26_AckEffect ==
    [][\A id \in MsgIds :
         /\ \A n \in Nodes :
               AckRead(n, id) =>
                  /\ pending_messages'[n] =
                        IF id \in DOMAIN pending_messages[n]
                        THEN DictDel(pending_messages[n], id)
                        ELSE pending_messages[n]
                  /\ \A o \in Nodes \ {n} : pending_messages'[o] = pending_messages[o]
                  /\ received_messages' = received_messages
                  /\ fault_stats' = fault_stats
         /\ AckedLast(id) => Transmissions(id)' = Transmissions(id)]_vars

\* C27: the timeout loop of a running node does not fail: whatever the order
\* in which it and the handler of acknowledgments come to the pending map,
\* its thread is asleep or inside a pass, never ended by an exception
C27_ScannerKeepsRunning ==
    \A n \in Nodes : running[n] => timeout_loop[n].pc \in {"sleep", "scan", "remove"}

(***************************************************************************)
(* Properties of the sequence numbers                                      *)
(***************************************************************************)
\* C28: the sequence numbers a node stamps on its messages are strictly
\* increasing in the order they are stamped, so none is stamped twice, however
\* the calls of send_reliable_message are interleaved
C28_SequenceIncreasing ==
    \A n \in Nodes :
        \A i \in DOMAIN stamps[n] :
            \A j \in DOMAIN stamps[n] : i < j => stamps[n][i] < stamps[n][j]

(***************************************************************************)
(* Properties of the heartbeats of the fault tolerance manager             *)
(***************************************************************************)
\* the heartbeat loop of node n runs a pass
HeartbeatTick(n) ==
    /\ heartbeat_loop[n].pc = "sleep"
    /\ heartbeat_loop[n].timer = 0
    /\ heartbeat_loop'[n].timer = heartbeat_interval

\* server n is the elected leader
IsElectedLeader(n) == state[n] = "leader" /\ current_leader[n] = Some(n)

\* C29: a pass of the heartbeat loop of a server that is the elected leader
\* broadcasts a LEADER_HEARTBEAT, and a LEADER_HEARTBEAT is broadcast by
\* nobody but the elected leader
C29_LeaderHeartbeat ==
    [][\A n \in Nodes :
         /\ (HeartbeatTick(n) /\ IsElectedLeader(n)) =>
                LeaderHeartbeatDatagram(n) \in bus'
         /\ (LeaderHeartbeatDatagram(n) \in bus' \ bus) => IsElectedLeader(n)]_vars

(***************************************************************************)
(* Properties of the partition callback                                    *)
(***************************************************************************)
\* C30: the PARTITION callback is called and the PARTITION fault counted once
\* when a node goes into partition, and neither again while the partition
\* lasts over further probe rounds
C30_PartitionCountedOnce ==
    [][\A n \in Nodes :
         /\ (~in_partition[n] /\ in_partition'[n]) =>
                /\ on_partition'[n] = on_partition[n] + 1
                /\ fault_stats'[n].partition = fault_stats[n].partition + 1
         /\ in_partition[n] =>
                /\ on_partition'[n] = on_partition[n]
                /\ fault_stats'[n].partition = fault_stats[n].partition]_vars

(***************************************************************************)
(* Properties of the receiver's answers                                    *)
(***************************************************************************)
\* the last datagram the receiver of server n read was answered with a
\* SERVER_RESPONSE
AnsweredProbe(n) ==
    /\ srv_log[n].reply # None
    /\ ~srv_log[n].reply[1].json
    /\ srv_log[n].reply[1].body[1] = "SERVER_RESPONSE"

\* C37: the SERVER_RESPONSE of a server carries its own hostname and its own
\* IP, so the id the prober derives from it is the id of the responder
C37_ResponseIdentity ==
    \A n \in Nodes :
        AnsweredProbe(n) =>
            /\ srv_log[n].reply[1].body = ServerResponse(n)
            /\ DiscoveredId(srv_log[n].reply[1].body) = n

\* the receiver of server n reads the SERVER_ALIVE of server id
AnnouncementRead(n, id) ==
    /\ srv_log'[n].received = srv_log[n].received + 1
    /\ srv_log'[n].message = Some(Text(ServerAliveMessage(id)))

PhaseInvariant(n) ==
    LET d == discovery_loop[n]
    IN  /\ d.discovery_phase \in {"startup", "running", "joining"}
        /\ d.pc = "off" => d.discovery_phase = "startup"
        /\ d.discovery_phase = "startup" <=> ~d.discovery_complete
        /\ d.discovery_complete <=> d.startup_complete = 1
        /\ d.startup_complete <= 1
        /\ d.elections > 0 => d.startup_complete = 1

\* what holds of every step of the discovery manager of node n
PhaseStepRule(n) ==
    LET d == discovery_loop[n]
        e == discovery_loop'[n]
    IN  /\ (d.discovery_phase # "joining" /\ e.discovery_phase = "joining") =>
               d.discovery_phase = "running"
        /\ (d.discovery_phase = "joining" /\ e.discovery_phase # "joining") =>
               e.discovery_phase = "running"
        /\ d.discovery_phase # "startup" => e.discovery_phase # "startup"
        /\ e.elections <= d.elections + 1

GVRun(n, th, c) ==
    /\ gv_call[n][th] = c
    /\ c.op \in {"add_participant", "remove_participant",
                 "_cleanup_inactive_participants"}
    /\ gv_lock[n] = "free"
    /\ gv_call'[n][th] # c

\* the events the step notifies, each listener counted
Notified(n) == SubSeq(srv_log'[n].notified, Len(srv_log[n].notified) + 1,
                      Len(srv_log'[n].notified))

\* one event of that kind for that id, and no other
OneEvent(n, event, id) ==
    /\ Len(Notified(n)) = 1
    /\ Notified(n)[1].event = event
    /\ Notified(n)[1].id = id

\* C33: with a listener registered, add_participant of an unknown id inserts
\* it, notifies one join and returns True, of a known id refreshes last_seen,
\* notifies nothing and returns False; remove_participant of a known id
\* deletes it, notifies one leave and returns True, of an unknown id changes
\* nothing and returns False; the cleanup scan notifies one timeout for each
\* participant it removes
C33_GroupViewEvents ==
    [][\A n \in Nodes : \A th \in Threads :
         LET c == gv_call[n][th]
             ps == participants[n]
             removed == GVIds(ps) \ GVIds(participants'[n])
         IN  (GVRun(n, th, c) /\ event_callbacks[n] # <<>>) =>
               CASE c.op = "add_participant" /\ c.id \notin GVIds(ps) ->
                      /\ participants'[n] = Append(ps, Participant(c.id, c.type))
                      /\ OneEvent(n, "join", c.id)
                      /\ srv_log'[n].returned = "True"
                 [] c.op = "add_participant" /\ c.id \in GVIds(ps) ->
                      /\ participants'[n] = UpdateActivity(ps, c.id)
                      /\ Notified(n) = <<>>
                      /\ srv_log'[n].returned = "False"
                 [] c.op = "remove_participant" /\ c.id \in GVIds(ps) ->
                      /\ participants'[n] = Pop(ps, c.id)
                      /\ OneEvent(n, "leave", c.id)
                      /\ srv_log'[n].returned = "True"
                 [] c.op = "remove_participant" /\ c.id \notin GVIds(ps) ->
                      /\ participants'[n] = ps
                      /\ Notified(n) = <<>>
                      /\ srv_log'[n].returned = "False"
                 [] OTHER ->
                      /\ Len(Notified(n)) = Cardinality(removed)
                      /\ \A id \in removed :
                            \E i \in DOMAIN Notified(n) :
                               /\ Notified(n)[i].event = "timeout"
                               /\ Notified(n)[i].id = id]_vars

(***************************************************************************)
(* Properties of undecodable datagrams                                     *)
(***************************************************************************)
\* the last call of handle_message was handed a datagram of Undecodable
UndecodableRead ==
    \/ ft_last.dgram.type = "not json"
    \/ /\ ft_last.dgram.type = "RELIABLE_MSG"
       /\ ~HasFields(ft_last.dgram.message)

\* C34: handle_message on a datagram that is no JSON, or on a RELIABLE_MSG
\* envelope whose message part lacks a field, counts one BYZANTINE fault,
\* sends no ACK and returns nothing
C34_UndecodableCounted ==
    UndecodableRead =>
       /\ ft_last.byzantine = 1
       /\ ft_last.acks = 0
       /\ ft_last.result = None

SenderOf(id) == id[1]

\* C36: the sender of a reliable message does not deliver it to itself and
\* sends no ACK for it, and the ACK that removes a pending message is one of
\* another node
C36_NoOwnAcknowledgment ==
    /\ [](\A id \in MsgIds :
            /\ upcalls[SenderOf(id)][id] = 0
            /\ AckDatagram(SenderOf(id), id) \notin bus)
    /\ [][\A n \in Nodes : \A id \in DOMAIN pending_messages[n] :
            (id \notin DOMAIN pending_messages'[n] /\ ft_last'.dgram.type = "ACK"
               /\ ft_last' # ft_last)
               => ft_last'.dgram.sender_id # n]_vars

(***************************************************************************)
(* Properties of the leader's two fields                                   *)
(***************************************************************************)
\* no election runs at the node: the flag is clear and no election thread lives
NoElectionRunning(n) ==
    /\ ~election_in_progress[n]
    /\ \A t \in 1..MaxThreads : election_threads[n][t] = NoThread

\* C38: at a running node where no election runs, state is LEADER exactly
\* when current_leader is the node itself
C38_LeaderFieldsAgree ==
    \A n \in Servers :
        (le_running[n] /\ NoElectionRunning(n)) =>
            (state[n] = "leader" <=> current_leader[n] = Some(n))

(***************************************************************************)
(* Properties of the text datagrams in the manager                         *)
(***************************************************************************)
\* the step is multicast_receiver reading a text datagram of the protocol
TextRead(n) ==
    /\ srv_log'[n].received = srv_log[n].received + 1
    /\ srv_log'[n].message # None
    /\ ~srv_log'[n].message[1].json

\* C39: the receiver reading a well-formed text datagram of the protocol
\* leaves the BYZANTINE counter of the manager as it was
C39_TextNotByzantine ==
    [][\A n \in Nodes :
         TextRead(n) => fault_stats'[n].byzantine = fault_stats[n].byzantine]_vars

(***************************************************************************)
(* Properties of a server's own entry                                      *)
(***************************************************************************)
\* C40: a step takes the server's own id neither out of its legacy server
\* set nor out of its unified group view
C40_NeverRemovesItself ==
    [][\A n \in Nodes :
         /\ n \in group_view_servers[n] => n \in group_view_servers'[n]
         /\ StrOf(n) \in GVIds(participants[n])
               => StrOf(n) \in GVIds(participants'[n])]_vars

====
